---- MODULE Spec2Model ----
(***************************************************************************)
(* A model of base/android/jni_generator/jni_generator.py: the type        *)
(* resolver (JniParams), the overload mangler, the native-method model and *)
(* the header generation driver.  Python strings are TLA+ strings, read    *)
(* character by character with Len, SubSeq and \o.                         *)
(***************************************************************************)
EXTENDS Integers, Sequences, FiniteSets, TLC

(***************************************************************************)
(* Python str operations.                                                  *)
(***************************************************************************)
Ch(s, i) == SubSeq(s, i, i)

StartsWith(s, t) == Len(s) >= Len(t) /\ SubSeq(s, 1, Len(t)) = t

EndsWith(s, t) == Len(s) >= Len(t) /\ SubSeq(s, Len(s) - Len(t) + 1, Len(s)) = t

Contains(s, t) == \E i \in 1..(Len(s) - Len(t) + 1) : SubSeq(s, i, i + Len(t) - 1) = t

Index(s, t) ==
  LET hits == {i \in 1..(Len(s) - Len(t) + 1) : SubSeq(s, i, i + Len(t) - 1) = t}
  IN  CHOOSE i \in hits : \A j \in hits : i <= j

RECURSIVE Replace(_, _, _)
Replace(s, old, new) ==
  IF Len(s) < Len(old) THEN s
  ELSE IF StartsWith(s, old)
       THEN new \o Replace(SubSeq(s, Len(old) + 1, Len(s)), old, new)
       ELSE Ch(s, 1) \o Replace(SubSeq(s, 2, Len(s)), old, new)

RECURSIVE Split(_, _)
Split(s, sep) ==
  IF ~Contains(s, sep) THEN <<s>>
  ELSE LET i == Index(s, sep)
       IN  <<SubSeq(s, 1, i - 1)>> \o Split(SubSeq(s, i + Len(sep), Len(s)), sep)

RECURSIVE Join(_, _)
Join(items, sep) ==
  IF Len(items) = 0 THEN ""
  ELSE IF Len(items) = 1 THEN items[1]
  ELSE items[1] \o sep \o Join(Tail(items), sep)

Whitespace == {" ", "\n", "\t"}

RECURSIVE Strip(_)
Strip(s) ==
  IF Len(s) = 0 THEN s
  ELSE IF Ch(s, 1) \in Whitespace THEN Strip(SubSeq(s, 2, Len(s)))
  ELSE IF Ch(s, Len(s)) \in Whitespace THEN Strip(SubSeq(s, 1, Len(s) - 1))
  ELSE s

UpperLetters == "ABCDEFGHIJKLMNOPQRSTUVWXYZ"
LowerLetters == "abcdefghijklmnopqrstuvwxyz"

Digits == "0123456789"

IsUpper(c) == Contains(UpperLetters, c)

ToUpper(c) == IF Contains(LowerLetters, c) THEN Ch(UpperLetters, Index(LowerLetters, c)) ELSE c

\* The first of the indices at which a loop's test holds, 0 when there is none.
FirstIdx(hits) == IF hits = {} THEN 0 ELSE CHOOSE i \in hits : \A j \in hits : i <= j

\* A returned value, or the exception that was raised instead.
Ok(v) == [ok |-> TRUE, val |-> v]
Raise(e) == [ok |-> FALSE, val |-> e]

(***************************************************************************)
(* State.  JniParams keeps the resolution context in class attributes.     *)
(***************************************************************************)
VARIABLES
  _imports,                \* JniParams._imports
  _fully_qualified_class,  \* JniParams._fully_qualified_class
  _package,                \* JniParams._package
  _inner_classes,          \* JniParams._inner_classes
  _implicit_imports,       \* JniParams._implicit_imports
  pc,                      \* where the running JNIFromJavaSource.__init__ stands
  runs,                    \* constructions started in this process
  cur,                     \* the input of the running construction
  last,                    \* the last JavaToJni call: its argument and outcome
  err,                     \* the exception that ended the construction, "" when none
  called_by_natives,       \* the CalledByNative objects ExtractCalledByNatives built
  cbn_pc,                  \* "start", then "returned" or the exception it raised
  ptr_type,                \* options.ptr_type
  nat_in,                  \* the native declarations of the contents, as written
  natives,                 \* the NativeMethod objects ExtractNatives built
  stubs,                   \* what GetNativeStub substitutes for each native
  nat_pc,                  \* "start", "extracted", "stubbed"
  gen_pc,                  \* where GenerateJNIHeader stands
  gen_in,                  \* the arguments of GenerateJNIHeader
  content,                 \* the local variable content
  out_dir,                 \* whether the directory of output_file exists
  out_file,                \* the file at output_file: whether it exists, and its text
  stdout,                  \* what was printed, in order
  exit_status,             \* "" while running, then the way the call ended
  values,                  \* the dict values of InlHeaderFileGenerator.GetContent
  hdr_pc,                  \* "idle", "generator", then "content" or the exception
  reg,                     \* a call of the emitted RegisterNativesImpl
  cache                    \* the cache cells of the emitted code and the threads in its stubs

jniVars == <<_imports, _fully_qualified_class, _package, _inner_classes, _implicit_imports>>
runVars == <<pc, runs, cur, last, err>>
cbnVars == <<called_by_natives, cbn_pc>>

natVars == <<ptr_type, nat_in, natives, stubs, nat_pc>>
genVars == <<gen_pc, gen_in, content, out_dir, out_file, stdout, exit_status>>
hdrVars == <<values, hdr_pc, reg, cache>>
restVars == <<cbnVars, natVars, genVars, hdrVars>>

vars == <<jniVars, runVars, restVars>>

\* Bounds of the model.
MaxRuns == 2

\* The lines of android_jar.classes, as file.readlines() returns them.
AndroidJarClasses ==
  << "java/lang/String.class\n",
     "java/lang/Thread.class\n",
     "android/graphics/Bitmap.class\n",
     "android/view/View$OnClickListener.class\n" >>

(***************************************************************************)
(* JniParams.                                                              *)
(***************************************************************************)
pod_param_map ==
  ("int" :> "I") @@ ("boolean" :> "Z") @@ ("char" :> "C") @@ ("short" :> "S") @@
  ("long" :> "J") @@ ("double" :> "D") @@ ("float" :> "F") @@ ("byte" :> "B") @@
  ("void" :> "V")

object_param_list ==
  << "Ljava/lang/Boolean", "Ljava/lang/Integer", "Ljava/lang/Long",
     "Ljava/lang/Object", "Ljava/lang/String", "Ljava/lang/Class",
     "Ljava/lang/CharSequence", "Ljava/lang/Runnable", "Ljava/lang/Throwable" >>

\* The context JavaToJni reads: the class attributes of JniParams.
Ctx ==
  [imports |-> _imports, fqc |-> _fully_qualified_class, package |-> _package,
   inner |-> _inner_classes, implicit |-> _implicit_imports]

\* SetFullyQualifiedClass: the two attributes it assigns.
FullyQualifiedClassOf(fully_qualified_class) == "L" \o fully_qualified_class

PackageOf(fully_qualified_class) ==
  LET parts == Split(fully_qualified_class, "/")
  IN  Join(SubSeq(parts, 1, Len(parts) - 1), "/")

\* The mutation of AddAdditionalImport in which a class that is already
\* imported is imported once more.
AddAdditionalImport_Again(imports, package, class_name) ==
  IF ~EndsWith(class_name, ".class")
  THEN [imports |-> imports, err |-> "AssertionError"]
  ELSE IF Contains(SubSeq(class_name, 1, Len(class_name) - Len(".class")), ".")
  THEN [imports |-> imports, err |-> "SyntaxError: qualified additional import"]
  ELSE [imports |-> imports \o <<"L" \o package \o "/"
                                  \o SubSeq(class_name, 1, Len(class_name) - Len(".class"))>>,
        err |-> ""]

\* AddAdditionalImport on the imports so far: the imports after it and the
\* exception it raised, "" when none.
AddAdditionalImport(imports, package, class_name) ==
  IF ~EndsWith(class_name, ".class")
  THEN [imports |-> imports, err |-> "AssertionError"]
  ELSE LET raw_class_name == SubSeq(class_name, 1, Len(class_name) - Len(".class"))
           new_import == "L" \o package \o "/" \o raw_class_name
       IN  IF Contains(raw_class_name, ".")
           THEN [imports |-> imports, err |-> "SyntaxError: qualified additional import"]
           ELSE IF \E i \in 1..Len(imports) : imports[i] = new_import
           THEN [imports |-> imports, err |-> "SyntaxError: already imported"]
           ELSE [imports |-> imports \o <<new_import>>, err |-> ""]

\* The loop over the names of the @JNIAdditionalImport directives; it stops at
\* the first exception and keeps what was added before it.
RECURSIVE AddAdditionalImports(_, _, _)
AddAdditionalImports(imports, package, class_names) ==
  IF Len(class_names) = 0 THEN [imports |-> imports, err |-> ""]
  ELSE LET r == AddAdditionalImport(imports, package, Strip(Head(class_names)))
       IN  IF r.err # "" THEN r
           ELSE AddAdditionalImports(r.imports, package, Tail(class_names))

\* The imports appended by the first loop of ExtractImportsAndInnerClasses.
RECURSIVE ImportsOf(_)
ImportsOf(classes) ==
  IF Len(classes) = 0 THEN <<>>
  ELSE <<"L" \o Replace(Head(classes), ".", "/")>> \o ImportsOf(Tail(classes))

\* The inner classes appended by its second loop.
RECURSIVE InnerClassesOf(_, _)
InnerClassesOf(fqc, names) ==
  IF Len(names) = 0 THEN <<>>
  ELSE (IF ~EndsWith(fqc, Head(names)) THEN <<fqc \o "$" \o Head(names)>> ELSE <<>>)
       \o InnerClassesOf(fqc, Tail(names))

\* while param[-2:] == '[]': the prefix built and what is left of param.
RECURSIVE ArrayPrefix(_)
ArrayPrefix(param) ==
  IF EndsWith(param, "[]") THEN "[" \o ArrayPrefix(SubSeq(param, 1, Len(param) - 2)) ELSE ""

RECURSIVE ArrayBase(_)
ArrayBase(param) ==
  IF EndsWith(param, "[]") THEN ArrayBase(SubSeq(param, 1, Len(param) - 2)) ELSE param

StripGeneric_Kept(param) == param

\* if '<' in param: param = param[:param.index('<')]
StripGeneric(param) ==
  IF Contains(param, "<") THEN SubSeq(param, 1, Index(param, "<") - 1) ELSE param

\* What _CheckImplicitImports makes of a line before it compares it.
ImplicitImportName(line) == Replace(Replace(Strip(line), ".class", ""), "/", ".")

\* ImplicitImportName of the lines of the file, computed once.
AndroidJarNames == [i \in 1..Len(AndroidJarClasses) |-> ImplicitImportName(AndroidJarClasses[i])]

_CheckImplicitImports_Silent(param, implicit) ==
  [implicit |-> IF Len(implicit) = 0 THEN AndroidJarClasses ELSE implicit, err |-> ""]

\* _CheckImplicitImports: the table after the call (loaded on first use) and the
\* exception raised, "" when none.
_CheckImplicitImports(param, implicit) ==
  LET table == IF Len(implicit) = 0 THEN AndroidJarClasses ELSE implicit
      names == IF table = AndroidJarClasses THEN AndroidJarNames
               ELSE [i \in 1..Len(table) |-> ImplicitImportName(table[i])]
      dotted == "." \o param
      hits == {i \in 1..Len(names) : EndsWith(names[i], dotted)}
  IN  [implicit |-> table,
       err |-> IF FirstIdx(hits) # 0 THEN "SyntaxError: ambiguous class" ELSE ""]

KnownClasses_InnerFirst(ctx) == ctx.inner \o <<ctx.fqc>> \o object_param_list

\* The names JavaToJni tries before the imports, in the order it tries them.
KnownClasses(ctx) == object_param_list \o <<ctx.fqc>> \o ctx.inner

IsInnerClassImport_Never(components) == FALSE

\* The test JavaToJni makes on an import matched by its last segment; the
\* callers have checked that components[-2] is not empty.
IsInnerClassImport(components) ==
  Len(components) > 2 /\ IsUpper(Ch(components[Len(components) - 1], 1))

\* The end of JavaToJni: c is what _CheckImplicitImports did.
SamePackage(prefix, param, ctx, c) ==
  IF c.err # ""
  THEN [ok |-> FALSE, val |-> c.err, implicit |-> c.implicit]
  ELSE [ok |-> TRUE, val |-> prefix \o "L" \o ctx.package \o "/" \o param \o ";",
        implicit |-> c.implicit]

\* The rules of JavaToJni after the array and generic suffixes are stripped.
\* The result carries the implicit-imports table as the call leaves it.
JavaToJniBase(prefix, param, ctx) ==
  LET known == KnownClasses(ctx)
      slash == "/" \o param
      dollar == "$" \o Replace(param, ".", "$")
      KnownHit(q) == \/ EndsWith(q, slash)
                     \/ EndsWith(q, dollar)
                     \/ q = "L" \o param
      k == FirstIdx({i \in 1..Len(known) : KnownHit(known[i])})
      m == FirstIdx({i \in 1..Len(ctx.imports) : EndsWith(ctx.imports[i], slash)})
      With(r) == [ok |-> r.ok, val |-> r.val, implicit |-> ctx.implicit]
  IN  IF param \in DOMAIN pod_param_map THEN With(Ok(prefix \o pod_param_map[param]))
      ELSE IF Contains(param, "/") THEN With(Ok(prefix \o "L" \o param \o ";"))
      ELSE IF k # 0 THEN With(Ok(prefix \o known[k] \o ";"))
      ELSE IF m # 0 THEN
        LET components == Split(ctx.imports[m], "/")
        IN  IF Len(components) > 2 /\ Len(components[Len(components) - 1]) = 0
            THEN With(Raise("IndexError"))
            ELSE IF IsInnerClassImport(components)
            THEN With(Raise("SyntaxError: inner class imported"))
            ELSE With(Ok(prefix \o ctx.imports[m] \o ";"))
      ELSE IF Contains(param, ".") THEN
        LET components == Split(param, ".")
            outer == Join(SubSeq(components, 1, Len(components) - 1), "/")
            inner == components[Len(components)]
            o == FirstIdx({i \in 1..Len(ctx.imports) : EndsWith(ctx.imports[i], "/" \o outer)})
        IN  IF o # 0 THEN With(Ok(prefix \o ctx.imports[o] \o "$" \o inner \o ";"))
            ELSE With(Raise("SyntaxError: inner class used directly"))
      ELSE SamePackage(prefix, param, ctx, _CheckImplicitImports(param, ctx.implicit))

\* JniParams.JavaToJni(param) under the context ctx.
JavaToJni(param, ctx) ==
  JavaToJniBase(ArrayPrefix(param), StripGeneric(ArrayBase(param)), ctx)

(***************************************************************************)
(* The inputs: what the regular expressions of                             *)
(* ExtractImportsAndInnerClasses match in a source file.                   *)
(*   fqc         the fully qualified class of the file                     *)
(*   imports     the 'class' group of every import statement                *)
(*   classes     the 'name' group of every class or interface declaration  *)
(*   additional  the 'class_names' group of every @JNIAdditionalImport     *)
(***************************************************************************)
File(fqc, imports, classes, additional) ==
  [fqc |-> fqc, imports |-> imports, classes |-> classes, additional |-> additional]

NoFile == File("", <<>>, <<>>, <<>>)

SourceFiles ==
  { File("p/Foo", <<"a.b.Bar">>, <<"Foo">>, <<>>),
    File("p/Foo", <<"a.Outer.Inner", "x.Nested">>, <<"Foo", "Nested">>, <<>>),
    File("q/Baz", <<"android.graphics.Bitmap", "a.Outer">>, <<"Baz", "Runnable">>,
         <<"Qux.class, Quux.class">>),
    File("p/Object", <<"java.lang.Thread">>, <<"Object">>, <<>>),
    File("q/Baz", <<>>, <<"Baz">>, <<"a.B.class">>),
    File("q/Baz", <<"q.Qux">>, <<"Baz">>, <<"Other.class, Qux.class, Later.class">>),
    File("p/MyFoo", <<>>, <<"MyFoo", "Foo">>, <<>>) }

\* The classes javap listings are read for.
JavaPClasses == { "java/util/HashSet" }

\* The type names the declarations of an input may hold.
TypeNames ==
  { "int", "boolean", "char", "short", "long", "double", "float", "byte", "void",
    "int[]", "int[][]", "String", "String[]", "Foo", "Foo<Bar>", "Foo<Bar>[]",
    "Bar", "Inner", "Nested", "Outer.Inner", "lang/String", "Bitmap", "Thread",
    "Object", "Runnable", "Qux", "Unknown" }

\* What a javap listing holds: the class of its 'public class' line, its method
\* and constructor lines with the line after each, and its constant fields.
JavaP(class_name, methods, constructors, fields) ==
  [class_name |-> class_name, methods |-> methods, constructors |-> constructors,
   fields |-> fields]

\* An input file: its extension and what the extraction finds in it.
Input(ext, file, native_decls, matches, unmatched_lines, javap) ==
  [ext |-> ext, file |-> file, native_decls |-> native_decls, matches |-> matches,
   unmatched_lines |-> unmatched_lines, javap |-> javap, jni_namespaces |-> <<>>]

\* The input with @JNINamespace("...") annotations added, one for each of the
\* namespaces, in the order of the text.
WithJNINamespace(input, namespaces) == [input EXCEPT !.jni_namespaces = namespaces]

NoInput == Input("", NoFile, <<>>, <<>>, <<>>, JavaP("", <<>>, <<>>, <<>>))

\* The arguments of GenerateJNIHeader before it is called, and a missing file.
NoArgs ==
  [input |-> NoInput, output_file |-> FALSE, optimize_generation |-> 0,
   namespace |-> "", native_exports_optional |-> FALSE]
NoOutput == [exists |-> FALSE, text |-> ""]

NoCall == [param |-> "", res |-> Ok("")]

\* Nothing is running.
RunIdle ==
  /\ pc = "idle"
  /\ runs = 0
  /\ cur = NoFile
  /\ last = NoCall
  /\ err = ""

CbnIdle ==
  /\ called_by_natives = <<>>
  /\ cbn_pc = "start"

\* No InlHeaderFileGenerator was constructed yet.
NoValues ==
  [SCRIPT_NAME |-> "", FULLY_QUALIFIED_CLASS |-> "", CLASS_PATH_DEFINITIONS |-> "",
   CONSTANT_FIELDS |-> "", METHOD_STUBS |-> "", OPEN_NAMESPACE |-> "",
   JNI_NATIVE_METHODS |-> "", REGISTER_NATIVES |-> "", CLOSE_NAMESPACE |-> "",
   HEADER_GUARD |-> "", INCLUDES |-> ""]

\* The emitted RegisterNativesImpl is not running: the line it stands at (0
\* for none), its lines, what IsManualJniRegistrationDisabled returned, the
\* calls of RegisterNatives made, the classes reported and what it returned.
NotRegistering ==
  [pc |-> 0, lines |-> <<>>, disabled |-> "", calls |-> <<>>, reported |-> <<>>,
   result |-> ""]

\* The emitted code is not loaded: no cells, no threads.
NoCache == [cells |-> <<>>, programs |-> <<>>, threads |-> <<>>]

HeaderIdle ==
  /\ values = NoValues
  /\ hdr_pc = "idle"
  /\ reg = NotRegistering
  /\ cache = NoCache

\* No native declaration was extracted yet; --ptr_type has its default.
NatIdle ==
  /\ ptr_type = "int"
  /\ nat_in = <<>>
  /\ natives = <<>>
  /\ stubs = <<>>
  /\ nat_pc = "start"

\* GenerateJNIHeader was not called.
GenIdle ==
  /\ gen_pc = "idle"
  /\ gen_in = NoArgs
  /\ content = ""
  /\ out_dir = FALSE
  /\ out_file = NoOutput
  /\ stdout = <<>>
  /\ exit_status = ""

Init ==
  /\ _imports = <<>>
  /\ _fully_qualified_class = ""
  /\ _package = ""
  /\ _inner_classes = <<>>
  /\ _implicit_imports = <<>>
  /\ RunIdle
  /\ CbnIdle
  /\ HeaderIdle
  /\ NatIdle
  /\ GenIdle

\* JNIFromJavaSource.__init__ up to JniParams.SetFullyQualifiedClass.
StartSource(f) ==
  /\ pc \in {"idle", "done", "failed"}
  /\ runs < MaxRuns
  /\ _fully_qualified_class' = FullyQualifiedClassOf(f.fqc)
  /\ _package' = PackageOf(f.fqc)
  /\ cur' = f
  /\ runs' = runs + 1
  /\ pc' = "extract"
  /\ last' = NoCall
  /\ err' = ""
  /\ UNCHANGED <<_imports, _inner_classes, _implicit_imports, restVars>>

\* JNIFromJavaP.__init__ up to JniParams.SetFullyQualifiedClass; the types of
\* the listing are resolved next, nothing is extracted.
StartJavaP(fqc) ==
  /\ pc \in {"idle", "done", "failed"}
  /\ runs < MaxRuns
  /\ _fully_qualified_class' = FullyQualifiedClassOf(fqc)
  /\ _package' = PackageOf(fqc)
  /\ cur' = File(fqc, <<>>, <<>>, <<>>)
  /\ runs' = runs + 1
  /\ pc' = "resolve"
  /\ last' = NoCall
  /\ err' = ""
  /\ UNCHANGED <<_imports, _inner_classes, _implicit_imports, restVars>>

\* The names of all @JNIAdditionalImport directives, in order.
RECURSIVE AdditionalNames(_)
AdditionalNames(groups) ==
  IF Len(groups) = 0 THEN <<>>
  ELSE Split(Head(groups), ",") \o AdditionalNames(Tail(groups))

\* JniParams.ExtractImportsAndInnerClasses(contents).
ExtractImportsAndInnerClasses ==
  /\ pc = "extract"
  /\ IF _package = ""
     THEN /\ pc' = "failed"
          /\ err' = "RuntimeError"
          /\ UNCHANGED <<_imports, _inner_classes>>
     ELSE LET imported == _imports \o ImportsOf(cur.imports)
              added == AddAdditionalImports(imported, _package, AdditionalNames(cur.additional))
          IN  /\ _imports' = added.imports
              /\ _inner_classes' =
                   _inner_classes \o InnerClassesOf(_fully_qualified_class, cur.classes)
              /\ err' = added.err
              /\ pc' = IF added.err = "" THEN "resolve" ELSE "failed"
  /\ UNCHANGED <<_fully_qualified_class, _package, _implicit_imports, runs, cur, last, restVars>>

\* What a call of JavaToJni that ended as r leaves behind.
JavaToJniDone(param, r) ==
  /\ last' = [param |-> param, res |-> [ok |-> r.ok, val |-> r.val]]
  /\ _implicit_imports' = r.implicit
  /\ pc' = IF r.ok THEN "resolve" ELSE "failed"
  /\ err' = IF r.ok THEN "" ELSE r.val

\* One call of JniParams.JavaToJni made while the content is built.
JavaToJniCall(param) ==
  /\ pc = "resolve"
  /\ JavaToJniDone(param, JavaToJni(param, Ctx))
  /\ UNCHANGED <<_imports, _fully_qualified_class, _package, _inner_classes, runs, cur,
                 restVars>>

\* The construction returns.
Finish ==
  /\ pc = "resolve"
  /\ pc' = "done"
  /\ UNCHANGED <<jniVars, runs, cur, last, err, restVars>>

Next ==
  \/ \E f \in SourceFiles : StartSource(f)
  \/ \E c \in JavaPClasses : StartJavaP(c)
  \/ ExtractImportsAndInnerClasses
  \/ \E t \in TypeNames : JavaToJniCall(t)
  \/ Finish

Spec == Init /\ [][Next]_vars

(***************************************************************************)
(* Properties of the resolver, stated on the last call of JavaToJni.       *)
(***************************************************************************)
Called == last # NoCall

\* The array prefix and the name JavaToJni is left with after rules 1 and 2.
LastPrefix == ArrayPrefix(last.param)
LastName == StripGeneric(ArrayBase(last.param))

RECURSIVE Repeat(_, _)
Repeat(s, n) == IF n = 0 THEN "" ELSE s \o Repeat(s, n - 1)

Depths == 0..2

IsImported(name) == \E i \in 1..Len(_imports) : EndsWith(_imports[i], "/" \o name)

FirstImport(name) ==
  _imports[CHOOSE i \in 1..Len(_imports) :
             /\ EndsWith(_imports[i], "/" \o name)
             /\ \A j \in 1..(i - 1) : ~EndsWith(_imports[j], "/" \o name)]

MatchesKnown(q, name) ==
  \/ EndsWith(q, "/" \o name)
  \/ EndsWith(q, "$" \o Replace(name, ".", "$"))
  \/ q = "L" \o name

IsWellKnown(name) == \E i \in 1..Len(object_param_list) : MatchesKnown(object_param_list[i], name)
IsOwnClass(name) == MatchesKnown(_fully_qualified_class, name)
IsInnerClass(name) == \E i \in 1..Len(_inner_classes) : MatchesKnown(_inner_classes[i], name)
IsKnown(name) == IsWellKnown(name) \/ IsOwnClass(name) \/ IsInnerClass(name)

IsImplicit(name) ==
  \E i \in 1..Len(AndroidJarClasses) :
    EndsWith(Replace(SubSeq(AndroidJarClasses[i], 1, Len(AndroidJarClasses[i]) - Len(".class\n")),
                     "/", "."),
             "." \o name)

\* An unqualified class name: no array, generic, package or outer-class part.
IsUnqualified(name) ==
  /\ name \notin DOMAIN pod_param_map
  /\ \A c \in {"[", "<", "/", "."} : ~Contains(name, c)

\* The binary path of an import as JavaToJni splits it: an inner class.
IsInnerPath(q) ==
  LET components == Split(q, "/")
  IN  Len(components) > 2 /\ IsUpper(Ch(components[Len(components) - 1], 1))

\* C1: JavaToJni maps the 8 primitives and void to their one-character codes,
\* prefixes one '[' per trailing '[]', maps String to Ljava/lang/String; and
\* resolves a name with a generic suffix as the name without it, in every
\* resolution context.
C1_Codes ==
  << <<"int", "I">>, <<"boolean", "Z">>, <<"char", "C">>, <<"short", "S">>,
     <<"long", "J">>, <<"double", "D">>, <<"float", "F">>, <<"byte", "B">>,
     <<"void", "V">>, <<"String", "Ljava/lang/String;">> >>

C1_ResolverOracle ==
  Called =>
    /\ \A i \in 1..Len(C1_Codes) : \A d \in Depths :
         last.param = C1_Codes[i][1] \o Repeat("[]", d)
           => last.res = Ok(Repeat("[", d) \o C1_Codes[i][2])
    /\ Contains(last.param, "<") =>
         LET lt == Index(last.param, "<")
             gt == Index(last.param, ">")
             plain == SubSeq(last.param, 1, lt - 1) \o SubSeq(last.param, gt + 1, Len(last.param))
             r == JavaToJni(plain, Ctx)
         IN  last.res = [ok |-> r.ok, val |-> r.val]

C1_Witness ==
  /\ last.param = "Foo<Bar>[]"
  /\ last.res = Ok("[Lp/Foo;")
  /\ _fully_qualified_class = "Lp/Foo"

\* C2 as stated: an unqualified name that is in the implicit-imports table and
\* is not imported fails resolution.
C2_ImplicitNotImportedFails ==
  (Called /\ IsUnqualified(last.param) /\ IsImplicit(last.param) /\ ~IsImported(last.param))
    => ~last.res.ok

\* C2 amended: an unqualified name of the implicit-imports table that is not
\* imported and is not a well-known type, the file's own class or an inner class
\* fails with the ambiguity error; with an import of that name in the context
\* (one that is not an inner-class import) it resolves to the first such import.
C2_ImportOf(name) ==
  LET i == CHOOSE j \in 1..Len(AndroidJarClasses) :
             EndsWith(AndroidJarClasses[j], "/" \o name \o ".class\n")
  IN  "L" \o SubSeq(AndroidJarClasses[i], 1, Len(AndroidJarClasses[i]) - Len(".class\n"))

C2_AmbiguousUntilImported ==
  (Called /\ IsUnqualified(last.param) /\ IsImplicit(last.param) /\ ~IsKnown(last.param))
    => IF IsImported(last.param)
       THEN ~IsInnerPath(FirstImport(last.param))
              => last.res = Ok(FirstImport(last.param) \o ";")
       ELSE /\ last.res = Raise("SyntaxError: ambiguous class")
            /\ LET import == C2_ImportOf(last.param)
                   r == JavaToJni(last.param, [Ctx EXCEPT !.imports = @ \o <<import>>])
               IN  ~IsInnerPath(import) => (r.ok /\ r.val = import \o ";")

C2_Witness ==
  /\ last.param = "Bitmap"
  /\ ~IsImported("Bitmap")
  /\ last.res = Raise("SyntaxError: ambiguous class")
  /\ pc = "failed"

\* C3 as stated: an inner-class import is rejected while the imports are
\* extracted, so no construction gets past the extraction with one.
C3_HasInnerClassImport(f) ==
  \E i \in 1..Len(f.imports) :
    LET parts == Split(f.imports[i], ".")
    IN  Len(parts) > 2 /\ IsUpper(Ch(parts[Len(parts) - 1], 1))

C3_RejectedAtImportTime ==
  C3_HasInnerClassImport(cur) => (pc \in {"extract", "failed"} /\ ~Called)

\* C3 amended: extraction accepts an inner-class import; the import is rejected
\* only by a JavaToJni call whose name no earlier rule resolves and whose first
\* matching import is the inner-class import, and exactly then.
C3_RejectedWhenResolved ==
  /\ err = "SyntaxError: inner class imported" => (Called /\ pc = "failed")
  /\ Called =>
       ( last.res = Raise("SyntaxError: inner class imported")
         <=> /\ LastName \notin DOMAIN pod_param_map
             /\ ~Contains(LastName, "/")
             /\ ~IsKnown(LastName)
             /\ IsImported(LastName)
             /\ IsInnerPath(FirstImport(LastName)) )

C3_Witness ==
  /\ C3_HasInnerClassImport(cur)
  /\ pc = "done"
  /\ Called
  /\ last.res.ok

\* C4: JavaToJni gives a name the result of the earliest rule that matches it:
\* primitive, slash-qualified, well-known type, own class, inner class, import
\* by last segment, dotted Outer.Inner against the imports, the implicit-import
\* check, and last the same-package fallback.
C4_FirstOf(items, name) ==
  items[CHOOSE i \in 1..Len(items) :
          MatchesKnown(items[i], name) /\ \A j \in 1..(i - 1) : ~MatchesKnown(items[j], name)]

C4_StrictPriority ==
  Called =>
    LET n == LastName
        pre == LastPrefix
        outer == Join(SubSeq(Split(n, "."), 1, Len(Split(n, ".")) - 1), "/")
        inner == Split(n, ".")[Len(Split(n, "."))]
    IN  IF n \in DOMAIN pod_param_map THEN last.res = Ok(pre \o pod_param_map[n])
        ELSE IF Contains(n, "/") THEN last.res = Ok(pre \o "L" \o n \o ";")
        ELSE IF IsWellKnown(n) THEN last.res = Ok(pre \o C4_FirstOf(object_param_list, n) \o ";")
        ELSE IF IsOwnClass(n) THEN last.res = Ok(pre \o _fully_qualified_class \o ";")
        ELSE IF IsInnerClass(n) THEN last.res = Ok(pre \o C4_FirstOf(_inner_classes, n) \o ";")
        ELSE IF IsImported(n)
             THEN IF IsInnerPath(FirstImport(n))
                  THEN last.res = Raise("SyntaxError: inner class imported")
                  ELSE last.res = Ok(pre \o FirstImport(n) \o ";")
        ELSE IF Contains(n, ".")
             THEN IF IsImported(outer)
                  THEN last.res = Ok(pre \o FirstImport(outer) \o "$" \o inner \o ";")
                  ELSE last.res = Raise("SyntaxError: inner class used directly")
        ELSE IF IsImplicit(n) THEN last.res = Raise("SyntaxError: ambiguous class")
        ELSE last.res = Ok(pre \o "L" \o _package \o "/" \o n \o ";")

C4_Witness ==
  /\ last.param = "Runnable"
  /\ IsInnerClass("Runnable")
  /\ last.res = Ok("Ljava/lang/Runnable;")

\* C5: a type name of an input resolves, or fails, as it would if the input
\* were the only one processed: the context holds what this input gave and
\* nothing of the inputs before it.
C5_ContextAlone(f) ==
  LET fqc == FullyQualifiedClassOf(f.fqc)
      package == PackageOf(f.fqc)
  IN  [imports |-> AddAdditionalImports(ImportsOf(f.imports), package,
                                        AdditionalNames(f.additional)).imports,
       fqc |-> fqc, package |-> package,
       inner |-> InnerClassesOf(fqc, f.classes), implicit |-> <<>>]

C5_PerFileContext ==
  Called =>
    LET r == JavaToJni(last.param, C5_ContextAlone(cur))
    IN  last.res = [ok |-> r.ok, val |-> r.val]

(***************************************************************************)
(* Called-by-native declarations and the overload mangler.                 *)
(***************************************************************************)
MaxMethods == 2

Param(datatype, name) == [datatype |-> datatype, name |-> name]

RECURSIVE RemoveAnnotations(_)
RemoveAnnotations(items) ==
  IF Len(items) > 0 /\ StartsWith(items[1], "@") THEN RemoveAnnotations(Tail(items)) ELSE items

\* list.remove(x): without the first x.
RemoveFirst(items, x) ==
  LET i == FirstIdx({j \in 1..Len(items) : items[j] = x})
  IN  IF i = 0 THEN items ELSE SubSeq(items, 1, i - 1) \o SubSeq(items, i + 1, Len(items))

\* The loop of JniParams.Parse over the comma-separated parameters; every
\* parameter of the inputs names a type (items[0] exists).
RECURSIVE ParseFrom(_, _)
ParseFrom(ps, ret) ==
  IF Len(ps) = 0 THEN ret
  ELSE LET items == RemoveFirst(RemoveAnnotations(Split(Strip(Head(ps)), " ")), "final")
           param == Param(items[1],
                          IF Len(items) > 1 THEN items[2] ELSE "p" \o Ch(Digits, Len(ret) + 1))
       IN  ParseFrom(Tail(ps), ret \o <<param>>)

\* JniParams.Parse(params).
Parse(params) == IF params = "" THEN <<>> ELSE ParseFrom(Split(params, ","), <<>>)

\* A group of a regular expression match, or a keyword argument: None when the
\* group took no part, or the argument was not given.
NoGroup == [given |-> FALSE, value |-> ""]
Group(value) == [given |-> TRUE, value |-> value]

\* Truth of such a value as Python tests it: None and '' are false.
Truthy(group) == group.given /\ group.value # ""

\* type_map of GetStaticCastForReturnType.
static_cast_type_map ==
  ("String" :> "jstring") @@ ("java/lang/String" :> "jstring")
  @@ ("Throwable" :> "jthrowable") @@ ("java/lang/Throwable" :> "jthrowable")
  @@ ("boolean[]" :> "jbooleanArray") @@ ("byte[]" :> "jbyteArray")
  @@ ("char[]" :> "jcharArray") @@ ("short[]" :> "jshortArray")
  @@ ("int[]" :> "jintArray") @@ ("long[]" :> "jlongArray")
  @@ ("float[]" :> "jfloatArray") @@ ("double[]" :> "jdoubleArray")

\* GetStaticCastForReturnType(return_type), "" for None.
GetStaticCastForReturnType(return_type) ==
  IF return_type \in DOMAIN static_cast_type_map THEN static_cast_type_map[return_type]
  ELSE IF EndsWith(return_type, "[]") THEN "jobjectArray"
  ELSE ""

\* env_call_map of GetEnvCall.
env_call_map ==
  ("boolean" :> "Boolean") @@ ("byte" :> "Byte") @@ ("char" :> "Char")
  @@ ("short" :> "Short") @@ ("int" :> "Int") @@ ("long" :> "Long")
  @@ ("float" :> "Float") @@ ("void" :> "Void") @@ ("double" :> "Double")
  @@ ("Object" :> "Object")

\* The mutation of GetEnvCall in which a static method is called as an
\* instance method.
GetEnvCall_NoStatic(is_constructor, is_static, return_type) ==
  IF is_constructor THEN "NewObject"
  ELSE "Call"
       \o (IF return_type \in DOMAIN env_call_map THEN env_call_map[return_type]
           ELSE "Object")
       \o "Method"

\* GetEnvCall(is_constructor, is_static, return_type).
GetEnvCall(is_constructor, is_static, return_type) ==
  IF is_constructor THEN "NewObject"
  ELSE "Call" \o (IF is_static THEN "Static" ELSE "")
       \o (IF return_type \in DOMAIN env_call_map THEN env_call_map[return_type]
           ELSE "Object")
       \o "Method"

\* CalledByNative(**kwargs).
CalledByNative(kwargs) ==
  [system_class |-> kwargs.system_class,
   unchecked |-> kwargs.unchecked,
   static |-> kwargs.static,
   java_class_name |-> kwargs.java_class_name,
   return_type |-> kwargs.return_type,
   name |-> kwargs.name,
   params |-> kwargs.params,
   method_id_var_name |-> "",
   signature |-> kwargs.signature,
   is_constructor |-> kwargs.is_constructor,
   env_call |-> GetEnvCall(kwargs.is_constructor, kwargs.static, kwargs.return_type),
   static_cast |-> GetStaticCastForReturnType(kwargs.return_type)]

\* The CalledByNative ExtractCalledByNatives builds from one match.
CalledByNativeOfMatch(match) ==
  CalledByNative([system_class |-> FALSE,
                  unchecked |-> Contains(match.Unchecked, "Unchecked"),
                  static |-> Contains(match.prefix, "static"),
                  java_class_name |-> match.annotation,
                  return_type |-> match.return_type,
                  name |-> match.name,
                  params |-> Parse(match.params),
                  signature |-> NoGroup,
                  is_constructor |-> FALSE])

\* The loop of GetMangledParam from index i (counted from 1).
RECURSIVE MangledFrom(_, _)
MangledFrom(datatype, i) ==
  IF i > Len(datatype) THEN ""
  ELSE LET c == Ch(datatype, i)
       IN  (IF c = "[" THEN "A"
            ELSE IF IsUpper(c) \/ Ch(datatype, i - 1) \in {"/", "L"} THEN ToUpper(c)
            ELSE "")
           \o MangledFrom(datatype, i + 1)

\* GetMangledParam(datatype).
GetMangledParam(datatype) ==
  IF Len(datatype) <= 2 THEN Replace(datatype, "[", "A") ELSE MangledFrom(datatype, 2)

\* re.match(r'[0-9a-zA-Z_]+', mangled_name): one or more such characters at
\* the start of the name; nothing is asked of what follows them.
AssertMangledName(mangled_name) ==
  /\ Len(mangled_name) > 0
  /\ Contains(Digits \o LowerLetters \o UpperLetters \o "_", Ch(mangled_name, 1))

\* The loop of GetMangledMethodName over the return type and the parameter
\* types: the mangled items, the exception JavaToJni raised ("" when none) and
\* the implicit-imports table as the calls leave it.
RECURSIVE MangledItems(_, _)

MangledCons(item, rest) ==
  [items |-> <<item>> \o rest.items, err |-> rest.err, implicit |-> rest.implicit]

\* One round of the loop: r is what JavaToJni made of the first datatype.
MangledItem(datatypes, ctx, r) ==
  IF ~r.ok THEN [items |-> <<>>, err |-> r.val, implicit |-> r.implicit]
  ELSE MangledCons(GetMangledParam(r.val),
                   MangledItems(Tail(datatypes), [ctx EXCEPT !.implicit = r.implicit]))

MangledItems(datatypes, ctx) ==
  IF Len(datatypes) = 0 THEN [items |-> <<>>, err |-> "", implicit |-> ctx.implicit]
  ELSE MangledItem(datatypes, ctx, JavaToJni(Head(datatypes), ctx))

DatatypesOf(params) == [i \in 1..Len(params) |-> params[i].datatype]

\* GetMangledMethodName(name, params, return_type).
MangledName(name, m) ==
  IF m.err # "" THEN [name |-> "", err |-> m.err, implicit |-> m.implicit]
  ELSE IF ~AssertMangledName(name \o Join(m.items, "_"))
  THEN [name |-> "", err |-> "AssertionError", implicit |-> m.implicit]
  ELSE [name |-> name \o Join(m.items, "_"), err |-> "", implicit |-> m.implicit]

GetMangledMethodName(name, params, return_type, ctx) ==
  MangledName(name, MangledItems(<<return_type>> \o DatatypesOf(params), ctx))

\* method_counts[java_class_name][name] after the first loop.
MethodCount(cbns, java_class_name, name) ==
  Cardinality({i \in 1..Len(cbns) :
                 cbns[i].java_class_name = java_class_name /\ cbns[i].name = name})

\* The second loop of MangleCalledByNatives from index i on.
RECURSIVE MangleFrom(_, _, _)

\* One round for a name that is overloaded: g is what GetMangledMethodName did.
MangleOverload(cbns, i, ctx, g) ==
  IF g.err # "" THEN [list |-> cbns, err |-> g.err, implicit |-> g.implicit]
  ELSE MangleFrom([cbns EXCEPT ![i].method_id_var_name = g.name], i + 1,
                  [ctx EXCEPT !.implicit = g.implicit])

MangleFrom(cbns, i, ctx) ==
  IF i > Len(cbns) THEN [list |-> cbns, err |-> "", implicit |-> ctx.implicit]
  ELSE IF MethodCount(cbns, cbns[i].java_class_name, cbns[i].name) > 1
  THEN MangleOverload(cbns, i, ctx,
                      GetMangledMethodName(cbns[i].name, cbns[i].params,
                                           cbns[i].return_type, ctx))
  ELSE MangleFrom([cbns EXCEPT ![i].method_id_var_name = cbns[i].name], i + 1, ctx)

\* MangleCalledByNatives(called_by_natives).
MangleCalledByNatives(cbns, ctx) == MangleFrom(cbns, 1, ctx)

\* The check of ExtractCalledByNatives for occurrences that were not matched:
\* unmatched_lines is the text left when the matches are cut out, by line.
HasUnmatched(unmatched_lines) ==
  \E i \in 1..(Len(unmatched_lines) - 1) : Contains(unmatched_lines[i], "@CalledByNative")

\* What ExtractCalledByNatives returns or raises for the matches of
\* RE_CALLED_BY_NATIVE and the text they leave.
CalledByNativesOf(matches, unmatched_lines, ctx) ==
  IF HasUnmatched(unmatched_lines)
  THEN [list |-> <<>>, err |-> "ParseError", implicit |-> ctx.implicit]
  ELSE MangleCalledByNatives([i \in 1..Len(matches) |-> CalledByNativeOfMatch(matches[i])], ctx)

\* What RE_CALLED_BY_NATIVE matches in the inputs: one record of groups a match.
Match(annotation, prefix, name, params) ==
  [Unchecked |-> "", annotation |-> annotation, prefix |-> prefix,
   return_type |-> "void", name |-> name, params |-> params]

Matches ==
  { Match(a, "public ", n, ps) :
      a \in {"", "Inner"}, n \in {"f", "g"},
      ps \in {"", "int i", "Foo a", "Far a", "final URL u", "Thread t"} }

\* The matches of an input, in the order of the text.
MatchLists == UNION { [1..n -> Matches] : n \in 1..MaxMethods }

UnmatchedTexts ==
  { <<"class Foo {", "}">>,
    <<"@CalledByNative", "int broken;", "}">>,
    <<"}", "@CalledByNative">> }

\* The source file the declarations are taken from.
MangleFile == File("p/Foo", <<"java.net.URL">>, <<"Foo">>, <<>>)

\* JNIFromJavaSource.__init__ has set the context of MangleFile and comes to
\* ExtractCalledByNatives.
InitMangle ==
  /\ _imports = ImportsOf(MangleFile.imports)
  /\ _fully_qualified_class = FullyQualifiedClassOf(MangleFile.fqc)
  /\ _package = PackageOf(MangleFile.fqc)
  /\ _inner_classes = InnerClassesOf(FullyQualifiedClassOf(MangleFile.fqc), MangleFile.classes)
  /\ _implicit_imports = <<>>
  /\ pc = "resolve"
  /\ runs = 1
  /\ cur = MangleFile
  /\ last = NoCall
  /\ err = ""
  /\ CbnIdle
  /\ HeaderIdle
  /\ NatIdle
  /\ GenIdle

\* The return of ExtractCalledByNatives: r is what MangleCalledByNatives did.
Mangled(r) ==
  /\ cbn_pc' = IF r.err = "" THEN "returned" ELSE r.err
  /\ called_by_natives' = IF r.err = "" THEN r.list ELSE <<>>
  /\ _implicit_imports' = r.implicit

\* ExtractCalledByNatives(contents).
ExtractCalledByNatives(matches, unmatched_lines) ==
  /\ pc = "resolve"
  /\ cbn_pc = "start"
  /\ Mangled(CalledByNativesOf(matches, unmatched_lines, Ctx))
  /\ UNCHANGED <<_imports, _fully_qualified_class, _package, _inner_classes, runVars,
                 natVars, genVars, hdrVars>>

NextMangle ==
  \E ms \in MatchLists : \E u \in UnmatchedTexts : ExtractCalledByNatives(ms, u)

SpecMangle == InitMangle /\ [][NextMangle]_vars

\* The descriptors the parameters of a declaration resolve to.
ResolvedParams(cbn) ==
  [i \in 1..Len(cbn.params) |-> JavaToJni(cbn.params[i].datatype, Ctx).val]

IsIdentifier(name) ==
  \A i \in 1..Len(name) : Contains(Digits \o LowerLetters \o UpperLetters \o "_", Ch(name, i))

\* C6: two called-by-native methods of one class with the same name and
\* different resolved parameter lists get different identifiers.
C6_OverloadsDistinct ==
  cbn_pc = "returned" =>
    \A i, j \in 1..Len(called_by_natives) :
      LET a == called_by_natives[i]
          b == called_by_natives[j]
      IN  ( /\ i # j
            /\ a.java_class_name = b.java_class_name
            /\ a.name = b.name
            /\ ResolvedParams(a) # ResolvedParams(b) )
          => a.method_id_var_name # b.method_id_var_name

\* C7: every identifier the mangler returns holds only ASCII letters, digits
\* and underscores; any other name ends in the assertion failure.
C7_MangledIsIdentifier ==
  cbn_pc = "returned" =>
    \A i \in 1..Len(called_by_natives) : IsIdentifier(called_by_natives[i].method_id_var_name)

(***************************************************************************)
(* Native declarations and their call stubs.                               *)
(***************************************************************************)
\* The mutation of NativeMethod that compares with the default pointer type.
NativeMethod_DefaultPtr(kwargs) ==
  LET is_method == /\ Len(kwargs.params) > 0
                   /\ kwargs.params[1].datatype = "int"
                   /\ StartsWith(kwargs.params[1].name, "native")
  IN  [static |-> kwargs.static,
       java_class_name |-> kwargs.java_class_name,
       return_type |-> kwargs.return_type,
       name |-> kwargs.name,
       params |-> kwargs.params,
       type |-> IF is_method THEN "method" ELSE "function",
       p0_type |-> IF ~is_method THEN ""
                   ELSE IF Truthy(kwargs.native_class_name) THEN kwargs.native_class_name.value
                   ELSE SubSeq(kwargs.params[1].name, Len("native") + 1,
                               Len(kwargs.params[1].name))]

\* NativeMethod(**kwargs); p0_type is "" where the object has no such attribute.
NativeMethod(kwargs) ==
  LET is_method == /\ Len(kwargs.params) > 0
                   /\ kwargs.params[1].datatype = kwargs.ptr_type
                   /\ StartsWith(kwargs.params[1].name, "native")
  IN  [static |-> kwargs.static,
       java_class_name |-> kwargs.java_class_name,
       return_type |-> kwargs.return_type,
       name |-> kwargs.name,
       params |-> kwargs.params,
       type |-> IF is_method THEN "method" ELSE "function",
       p0_type |-> IF ~is_method THEN ""
                   ELSE IF Truthy(kwargs.native_class_name) THEN kwargs.native_class_name.value
                   ELSE SubSeq(kwargs.params[1].name, Len("native") + 1,
                               Len(kwargs.params[1].name))]

java_pod_type_map ==
  ("int" :> "jint") @@ ("byte" :> "jbyte") @@ ("char" :> "jchar") @@ ("short" :> "jshort") @@
  ("boolean" :> "jboolean") @@ ("long" :> "jlong") @@ ("double" :> "jdouble") @@
  ("float" :> "jfloat")

java_type_map ==
  ("void" :> "void") @@ ("String" :> "jstring") @@ ("Throwable" :> "jthrowable") @@
  ("java/lang/String" :> "jstring") @@ ("java/lang/Class" :> "jclass") @@
  ("java/lang/Throwable" :> "jthrowable")

\* JavaDataTypeToC(java_type).
JavaDataTypeToC(java_type) ==
  IF java_type \in DOMAIN java_pod_type_map THEN java_pod_type_map[java_type]
  ELSE IF java_type \in DOMAIN java_type_map THEN java_type_map[java_type]
  ELSE IF EndsWith(java_type, "[]")
  THEN IF SubSeq(java_type, 1, Len(java_type) - 2) \in DOMAIN java_pod_type_map
       THEN java_pod_type_map[SubSeq(java_type, 1, Len(java_type) - 2)] \o "Array"
       ELSE "jobjectArray"
  ELSE IF StartsWith(java_type, "Class") THEN "jclass"
  ELSE "jobject"

\* re.match(RE_SCOPED_JNI_TYPES, c_type): one of the four names at the start of
\* c_type, or 'Array' anywhere in it.
RE_SCOPED_JNI_TYPES(c_type) ==
  \/ \E t \in {"jobject", "jclass", "jstring", "jthrowable"} : StartsWith(c_type, t)
  \/ Contains(c_type, "Array")

\* The mutation of GetJNIFirstParamType that never looks at native.static.
GetJNIFirstParamType_Object(native) == "jobject"

\* InlHeaderFileGenerator.GetJNIFirstParamType(native).
GetJNIFirstParamType(native) ==
  IF native.type = "method" THEN "jobject"
  ELSE IF native.static THEN "jclass"
  ELSE "jobject"

\* InlHeaderFileGenerator.GetJavaParamRefForCall(c_type, name).
GetJavaParamRefForCall(c_type, name) ==
  "base::android::JavaParamRef<" \o c_type \o ">(env, " \o name \o ")"

\* InlHeaderFileGenerator.GetJNIFirstParamForCall(native).
GetJNIFirstParamForCall(native) ==
  <<GetJavaParamRefForCall(GetJNIFirstParamType(native), "jcaller")>>

\* InlHeaderFileGenerator.GetStubName(native).
GetStubName(native, fully_qualified_class) ==
  "Java_"
  \o Replace(Replace(fully_qualified_class, "_", "_1"), "/", "_")
  \o (IF Truthy(native.java_class_name) THEN "_00024" \o native.java_class_name.value ELSE "")
  \o "_native" \o native.name

\* The loop of GetNativeStub that appends the parameters to params_in_call.
ParamInCall(p) ==
  IF RE_SCOPED_JNI_TYPES(JavaDataTypeToC(p.datatype))
  THEN GetJavaParamRefForCall(JavaDataTypeToC(p.datatype), p.name)
  ELSE p.name

\* The parameters GetNativeStub passes on: all but the first one of a method.
ParamsOfCall(native) ==
  IF native.type = "method" THEN Tail(native.params) ELSE native.params

\* WrapCTypeForDeclaration(c_type).
WrapCTypeForDeclaration(c_type) ==
  IF RE_SCOPED_JNI_TYPES(c_type)
  THEN "const base::android::JavaParamRef<" \o c_type \o ">&"
  ELSE c_type

\* JavaDataTypeToCForDeclaration(java_type).
JavaDataTypeToCForDeclaration(java_type) ==
  WrapCTypeForDeclaration(JavaDataTypeToC(java_type))

\* JavaReturnValueToC(java_type).
JavaReturnValueToC(java_type) ==
  IF java_type \in {"int", "byte", "char", "short", "long", "double", "float"} THEN "0"
  ELSE IF java_type = "boolean" THEN "false"
  ELSE IF java_type = "void" THEN ""
  ELSE "NULL"

\* InlHeaderFileGenerator.GetJNIFirstParam(native, for_declaration).
GetJNIFirstParam(native, for_declaration) ==
  <<(IF for_declaration THEN WrapCTypeForDeclaration(GetJNIFirstParamType(native))
     ELSE GetJNIFirstParamType(native)) \o " jcaller">>

\* InlHeaderFileGenerator.GetParamsInDeclaration(native).
GetParamsInDeclaration(native) ==
  Join(GetJNIFirstParam(native, TRUE)
       \o [i \in 1..Len(native.params) |->
             JavaDataTypeToCForDeclaration(native.params[i].datatype) \o " "
             \o native.params[i].name],
       ",\n    ")

\* InlHeaderFileGenerator.GetParamsInStub(native).
GetParamsInStub(native) ==
  Join(GetJNIFirstParam(native, FALSE)
       \o [i \in 1..Len(native.params) |->
             JavaDataTypeToC(native.params[i].datatype) \o " " \o native.params[i].name],
       ",\n    ")

\* The forward declaration in the template GetNativeStub takes for a function.
ForwardDeclaration(return_declaration, name, params) ==
  "static " \o return_declaration \o " " \o name \o "(JNIEnv* env, " \o params \o ");"

\* The mutation of NativeStubText that leaves the forward declaration out.
NativeStubText_NoForward(is_method, v, call) ==
  "extern \"C\" __attribute__((visibility(\"default\")))\n"
  \o v.RETURN \o " " \o v.STUB_NAME \o "(JNIEnv* env, " \o v.PARAMS_IN_STUB \o ") {\n"
  \o call \o "\n"
  \o "}\n"

\* The two templates of GetNativeStub, substituted.
NativeStubText(is_method, v, call) ==
  IF is_method
  THEN "extern \"C\" __attribute__((visibility(\"default\")))\n"
       \o v.RETURN \o " " \o v.STUB_NAME \o "(JNIEnv* env,\n"
       \o "    " \o v.PARAMS_IN_STUB \o ") {\n"
       \o "  " \o v.P0_TYPE \o "* native = reinterpret_cast<" \o v.P0_TYPE \o "*>("
       \o v.PARAM0_NAME \o ");\n"
       \o "  CHECK_NATIVE_PTR(env, jcaller, native, \"" \o v.NAME \o "\""
       \o v.OPTIONAL_ERROR_RETURN \o ");\n"
       \o call \o "\n"
       \o "}\n"
  ELSE "\n"
       \o ForwardDeclaration(v.RETURN_DECLARATION, v.NAME, v.PARAMS) \o "\n"
       \o "\n"
       \o "extern \"C\" __attribute__((visibility(\"default\")))\n"
       \o v.RETURN \o " " \o v.STUB_NAME \o "(JNIEnv* env, " \o v.PARAMS_IN_STUB \o ") {\n"
       \o call \o "\n"
       \o "}\n"

\* The values of GetNativeStub.
NativeStubValues(native, fully_qualified_class, params_in_call, return_type) ==
  [RETURN |-> return_type,
   RETURN_DECLARATION |->
     IF RE_SCOPED_JNI_TYPES(return_type)
     THEN "base::android::ScopedJavaLocalRef<" \o return_type \o ">"
     ELSE return_type,
   NAME |-> native.name,
   PARAMS |-> GetParamsInDeclaration(native),
   PARAMS_IN_STUB |-> GetParamsInStub(native),
   PARAMS_IN_CALL |-> params_in_call,
   POST_CALL |-> IF RE_SCOPED_JNI_TYPES(return_type) THEN ".Release()" ELSE "",
   STUB_NAME |-> GetStubName(native, fully_qualified_class),
   OPTIONAL_ERROR_RETURN |->
     IF native.type = "method" /\ JavaReturnValueToC(native.return_type) # ""
     THEN ", " \o JavaReturnValueToC(native.return_type)
     ELSE "",
   P0_TYPE |-> native.p0_type,
   PARAM0_NAME |-> IF native.type = "method" THEN native.params[1].name ELSE ""]

\* The line of either template that holds the call.
NativeStubCall(is_method, v) ==
  (IF is_method THEN "  return native->" ELSE "  return ")
  \o v.NAME \o "(" \o v.PARAMS_IN_CALL \o ")" \o v.POST_CALL \o ";"

\* GetNativeStub from its values on: the values, the line that holds the call
\* and the substituted template.
NativeStubOf(is_method, v) ==
  v @@ [call |-> NativeStubCall(is_method, v),
        text |-> NativeStubText(is_method, v, NativeStubCall(is_method, v))]

\* InlHeaderFileGenerator.GetNativeStub(native).
GetNativeStub(native, fully_qualified_class) ==
  NativeStubOf(
    native.type = "method",
    NativeStubValues(
      native, fully_qualified_class,
      Join(<<"env">> \o GetJNIFirstParamForCall(native)
             \o [i \in 1..Len(ParamsOfCall(native)) |-> ParamInCall(ParamsOfCall(native)[i])],
           ", "),
      JavaDataTypeToC(native.return_type)))

\* The first parameter of a native declaration as the Java text writes it.
NoFirst == [present |-> FALSE, mods |-> "", type |-> "", name |-> ""]

FirstParams ==
  {NoFirst} \cup
  { [present |-> TRUE, mods |-> m, type |-> t, name |-> n] :
      m \in {"", "final ", "@Ann final "}, t \in {"int", "long", "String"},
      n \in {"nativeFoo", "foo"} }

\* What may follow the first parameter of a declaration.
Rests(first) ==
  IF first.present THEN {"", ", long nativeBar, String[] names"} ELSE {""}

\* The native declarations of the inputs.
NativeDecls ==
  { d \in [native_class_name : {NoGroup, Group(""), Group("a::B")},
           java_class_name : {NoGroup, Group("Inner")},
           qualifiers : {"private", "private static"},
           return_type : {"void", "String"},
           name : {"nativeDestroy"},
           first : FirstParams,
           rest : {"", ", long nativeBar, String[] names"}] :
      d.rest \in Rests(d.first) }

\* The text between the parentheses of a declaration.
ParamsText(decl) ==
  IF decl.first.present
  THEN decl.first.mods \o decl.first.type \o " " \o decl.first.name \o decl.rest
  ELSE ""

\* The native declarations of an input, in the order of the text.
NativeContents ==
  { <<d>> : d \in NativeDecls } \cup
  { <<d, e>> : d, e \in { x \in NativeDecls :
                            /\ x.native_class_name = NoGroup
                            /\ x.java_class_name = NoGroup
                            /\ x.return_type = "void"
                            /\ x.first.mods = ""
                            /\ x.first.type \in {"", "long"}
                            /\ x.rest = "" } }

\* The source file the native declarations are taken from.
NativeFile == File("org/my_app/Foo", <<>>, <<"Foo">>, <<>>)

\* JNIFromJavaSource.__init__ has set the context of NativeFile and comes to
\* ExtractNatives; --ptr_type is int or long.
InitNative ==
  /\ _imports = ImportsOf(NativeFile.imports)
  /\ _fully_qualified_class = FullyQualifiedClassOf(NativeFile.fqc)
  /\ _package = PackageOf(NativeFile.fqc)
  /\ _inner_classes = InnerClassesOf(FullyQualifiedClassOf(NativeFile.fqc), NativeFile.classes)
  /\ _implicit_imports = <<>>
  /\ pc = "resolve"
  /\ runs = 1
  /\ cur = NativeFile
  /\ last = NoCall
  /\ err = ""
  /\ CbnIdle
  /\ HeaderIdle
  /\ ptr_type \in {"int", "long"}
  /\ nat_in = <<>>
  /\ natives = <<>>
  /\ stubs = <<>>
  /\ nat_pc = "start"
  /\ GenIdle

\* The NativeMethod ExtractNatives builds from one match of re_native.
NativeOfMatch(decl, ptr) ==
  NativeMethod([static |-> Contains(decl.qualifiers, "static"),
                java_class_name |-> decl.java_class_name,
                native_class_name |-> decl.native_class_name,
                return_type |-> decl.return_type,
                name |-> Replace(decl.name, "native", ""),
                params |-> Parse(ParamsText(decl)),
                ptr_type |-> ptr])

\* ExtractNatives(contents, ptr_type).
ExtractNatives(contents) ==
  /\ nat_pc = "start"
  /\ nat_in' = contents
  /\ natives' = [i \in 1..Len(contents) |-> NativeOfMatch(contents[i], ptr_type)]
  /\ nat_pc' = "extracted"
  /\ UNCHANGED <<jniVars, runVars, cbnVars, hdrVars, ptr_type, stubs, genVars>>

\* The loop of GetMethodStubsString over the natives.
GetMethodStubsString ==
  /\ nat_pc = "extracted"
  /\ stubs' = [i \in 1..Len(natives) |-> GetNativeStub(natives[i], cur.fqc)]
  /\ nat_pc' = "stubbed"
  /\ UNCHANGED <<jniVars, runVars, cbnVars, hdrVars, ptr_type, nat_in, natives, genVars>>

NextNative ==
  \/ \E c \in NativeContents : ExtractNatives(c)
  \/ GetMethodStubsString

SpecNative == InitNative /\ [][NextNative]_vars

\* Whether a declaration, as written, has a first parameter of the configured
\* pointer type whose name starts with 'native'.
HasPeer(decl) ==
  /\ decl.first.present
  /\ decl.first.type = ptr_type
  /\ Len(decl.first.name) >= 6
  /\ SubSeq(decl.first.name, 1, 6) = "native"

\* C8: a native declaration is of type 'method' exactly when its first
\* parameter is written with the configured pointer type and a name that starts
\* with 'native'; its peer type is then the rest of that name, or the value of
\* @NativeClassQualifiedName when one (a non-empty one) is given; every other
\* declaration is of type 'function'.
C8_Classification ==
  nat_pc # "start" =>
    \A i \in 1..Len(nat_in) :
      IF HasPeer(nat_in[i])
      THEN /\ natives[i].type = "method"
           /\ natives[i].p0_type =
                IF nat_in[i].native_class_name.given /\ nat_in[i].native_class_name.value # ""
                THEN nat_in[i].native_class_name.value
                ELSE SubSeq(nat_in[i].first.name, 7, Len(nat_in[i].first.name))
      ELSE natives[i].type = "function"

C8_Witness ==
  /\ nat_pc = "extracted"
  /\ ptr_type = "long"
  /\ Len(nat_in) = 2
  /\ nat_in[1].first = [present |-> TRUE, mods |-> "", type |-> "long", name |-> "nativeFoo"]
  /\ natives[1].type = "method"
  /\ natives[1].p0_type = "Foo"
  /\ ~nat_in[2].first.present
  /\ natives[2].type = "function"

\* The parameters of a declaration as written: type and name of each.
RECURSIVE C9_Tokens(_)
C9_Tokens(text) ==
  IF text = "" THEN <<>>
  ELSE IF Contains(text, ", ")
  THEN <<SubSeq(text, 1, Index(text, ", ") - 1)>>
       \o C9_Tokens(SubSeq(text, Index(text, ", ") + 2, Len(text)))
  ELSE <<text>>

\* The name a written parameter ends with.
RECURSIVE C9_NameOf(_)
C9_NameOf(token) ==
  IF Contains(token, " ")
  THEN C9_NameOf(SubSeq(token, Index(token, " ") + 1, Len(token)))
  ELSE token

\* The written parameters that are to be passed on: all of them, without the
\* peer parameter when there is one.
C9_Declared(decl) ==
  LET names == [i \in 1..Len(C9_Tokens(ParamsText(decl))) |->
                  C9_NameOf(C9_Tokens(ParamsText(decl))[i])]
  IN  IF HasPeer(decl) THEN Tail(names) ELSE names

\* The arguments of the emitted call: the text between its parentheses, cut at
\* the commas that are not inside a JavaParamRef<..>(env, name).
RECURSIVE C9_Args(_)
C9_Args(text) ==
  IF text = "" THEN <<>>
  ELSE IF StartsWith(text, "base::android::JavaParamRef<")
  THEN <<SubSeq(text, 1, Index(text, ")"))>>
       \o C9_Args(SubSeq(text, Index(text, ")") + 3, Len(text)))
  ELSE IF Contains(text, ", ")
  THEN <<SubSeq(text, 1, Index(text, ", ") - 1)>>
       \o C9_Args(SubSeq(text, Index(text, ", ") + 2, Len(text)))
  ELSE <<text>>

\* The variable an argument passes: the argument itself, or the one wrapped.
C9_Passed(arg) ==
  IF StartsWith(arg, "base::android::JavaParamRef<")
  THEN SubSeq(arg, Index(arg, "(env, ") + 6, Len(arg) - 1)
  ELSE arg

C9_CallArgs(stub) ==
  C9_Args(SubSeq(stub.call, Index(stub.call, "(") + 1, Len(stub.call) - Len(stub.POST_CALL) - 2))

\* C9: the call GetNativeStub emits passes env, the caller object, then the
\* declared parameters in declared order, without the peer parameter exactly
\* when the declaration is of type 'method'; for a 'function' the caller is a
\* jclass when the declaration is static and a jobject when it is not.
C9_CallArguments ==
  nat_pc = "stubbed" =>
    \A i \in 1..Len(nat_in) :
      LET args == C9_CallArgs(stubs[i])
      IN  /\ Len(args) >= 2
          /\ args[1] = "env"
          /\ C9_Passed(args[2]) = "jcaller"
          /\ [k \in 1..(Len(args) - 2) |-> C9_Passed(args[k + 2])] = C9_Declared(nat_in[i])
          /\ ~HasPeer(nat_in[i]) =>
               args[2] = "base::android::JavaParamRef<"
                         \o (IF Contains(nat_in[i].qualifiers, "static")
                             THEN "jclass" ELSE "jobject")
                         \o ">(env, jcaller)"

C9_Witness ==
  /\ nat_pc = "stubbed"
  /\ Len(nat_in) = 1
  /\ ptr_type = "long"
  /\ nat_in[1].qualifiers = "private static"
  /\ nat_in[1].first.type = "int"
  /\ nat_in[1].first.name = "nativeFoo"
  /\ nat_in[1].return_type = "void"
  /\ stubs[1].call =
       "  return Destroy(env, base::android::JavaParamRef<jclass>(env, jcaller), nativeFoo, "
       \o "nativeBar, base::android::JavaParamRef<jobjectArray>(env, names));"

(***************************************************************************)
(* GenerateJNIHeader: the content is built, then the output is written.    *)
(***************************************************************************)
\* The loop of JniParams.Signature over the datatypes: the descriptors, the
\* exception JavaToJni raised ("" when none) and the implicit-imports table.
RECURSIVE JavaToJniAll(_, _)

JniCons(item, rest) ==
  [items |-> <<item>> \o rest.items, err |-> rest.err, implicit |-> rest.implicit]

JavaToJniNext(datatypes, ctx, r) ==
  IF ~r.ok THEN [items |-> <<>>, err |-> r.val, implicit |-> r.implicit]
  ELSE JniCons(r.val, JavaToJniAll(Tail(datatypes), [ctx EXCEPT !.implicit = r.implicit]))

JavaToJniAll(datatypes, ctx) ==
  IF Len(datatypes) = 0 THEN [items |-> <<>>, err |-> "", implicit |-> ctx.implicit]
  ELSE JavaToJniNext(datatypes, ctx, JavaToJni(Head(datatypes), ctx))

Quoted(items) == [i \in 1..Len(items) |-> "\"" \o items[i] \o "\""]

\* The return of JniParams.Signature for the items '(' params ')' returns.
SignatureText(items, wrap) ==
  IF wrap THEN "\n" \o Join(Quoted(items), "\n")
  ELSE "\"" \o Join(items, "") \o "\""

SignatureOf(n, r, wrap) ==
  IF r.err # "" THEN [text |-> "", err |-> r.err, implicit |-> r.implicit]
  ELSE [text |-> SignatureText(<<"(">> \o SubSeq(r.items, 1, n) \o <<")", r.items[n + 1]>>, wrap),
        err |-> "", implicit |-> r.implicit]

\* JniParams.Signature(params, returns, wrap).
Signature(params, returns, wrap, ctx) ==
  SignatureOf(Len(params), JavaToJniAll(DatatypesOf(params) \o <<returns>>, ctx), wrap)

\* JniParams.ParseJavaPSignature(signature_line).
ParseJavaPSignature(signature_line) ==
  IF Contains(signature_line, "Signature: ")
  THEN Ok("\"" \o SubSeq(signature_line,
                         Index(signature_line, "Signature: ") + Len("Signature: "),
                         Len(signature_line)) \o "\"")
  ELSE IF Contains(signature_line, "descriptor: ")
  THEN Ok("\"" \o SubSeq(signature_line,
                         Index(signature_line, "descriptor: ") + Len("descriptor: "),
                         Len(signature_line)) \o "\"")
  ELSE Raise("ValueError")

\* The mutation of MethodIDImplText in which the stub passes the cell of the
\* class handle for the member identifier.
MethodIDImplText_ClassCell(called_by_native, class_name, sig) ==
  IF sig.err # "" THEN sig
  ELSE [text |->
          "  base::android::MethodID::LazyGet<\n"
          \o "      base::android::MethodID::TYPE_"
          \o (IF called_by_native.static THEN "STATIC" ELSE "INSTANCE") \o ">(\n"
          \o "      env, "
          \o (IF called_by_native.java_class_name # ""
              THEN called_by_native.java_class_name ELSE class_name)
          \o "_clazz(env),\n"
          \o "      \""
          \o (IF called_by_native.is_constructor THEN "<init>" ELSE called_by_native.name)
          \o "\",\n"
          \o "      " \o sig.text \o ",\n"
          \o "      &g_"
          \o (IF called_by_native.java_class_name # ""
              THEN called_by_native.java_class_name ELSE class_name)
          \o "_clazz);\n",
        err |-> "", implicit |-> sig.implicit]

\* The template of GetMethodIDImpl with its values, sig being the signature.
MethodIDImplText(called_by_native, class_name, sig) ==
  IF sig.err # "" THEN sig
  ELSE [text |->
          "  base::android::MethodID::LazyGet<\n"
          \o "      base::android::MethodID::TYPE_"
          \o (IF called_by_native.static THEN "STATIC" ELSE "INSTANCE") \o ">(\n"
          \o "      env, "
          \o (IF called_by_native.java_class_name # ""
              THEN called_by_native.java_class_name ELSE class_name)
          \o "_clazz(env),\n"
          \o "      \""
          \o (IF called_by_native.is_constructor THEN "<init>" ELSE called_by_native.name)
          \o "\",\n"
          \o "      " \o sig.text \o ",\n"
          \o "      &g_"
          \o (IF called_by_native.java_class_name # ""
              THEN called_by_native.java_class_name ELSE class_name)
          \o "_" \o called_by_native.method_id_var_name \o ");\n",
        err |-> "", implicit |-> sig.implicit]

\* InlHeaderFileGenerator.GetMethodIDImpl(called_by_native).
GetMethodIDImpl(called_by_native, class_name, ctx) ==
  MethodIDImplText(
    called_by_native, class_name,
    IF Truthy(called_by_native.signature)
    THEN [text |-> called_by_native.signature.value, err |-> "", implicit |-> ctx.implicit]
    ELSE Signature(called_by_native.params,
                   IF called_by_native.is_constructor THEN "void"
                   ELSE called_by_native.return_type,
                   TRUE, ctx))

\* JavaDataTypeToCForCalledByNativeParam(java_type).
JavaDataTypeToCForCalledByNativeParam(java_type) ==
  IF java_type = "int" THEN "JniIntWrapper"
  ELSE IF RE_SCOPED_JNI_TYPES(JavaDataTypeToC(java_type))
  THEN "const base::android::JavaRefOrBare<" \o JavaDataTypeToC(java_type) \o ">&"
  ELSE JavaDataTypeToC(java_type)

\* InlHeaderFileGenerator.GetCalledByNativeParamsInDeclaration(called_by_native).
GetCalledByNativeParamsInDeclaration(called_by_native) ==
  Join([i \in 1..Len(called_by_native.params) |->
          JavaDataTypeToCForCalledByNativeParam(called_by_native.params[i].datatype)
          \o " " \o called_by_native.params[i].name],
       ",\n    ")

\* InlHeaderFileGenerator.GetArgument(param).
GetArgument(param) ==
  IF param.datatype = "int" THEN "as_jint(" \o param.name \o ")"
  ELSE IF RE_SCOPED_JNI_TYPES(JavaDataTypeToC(param.datatype)) THEN param.name \o ".obj()"
  ELSE param.name

\* InlHeaderFileGenerator.GetArgumentsInCall(params).
GetArgumentsInCall(params) == [i \in 1..Len(params) |-> GetArgument(params[i])]

\* A non-empty text with ', ' before it, as GetCalledByNativeValues makes it.
CommaBefore(text) == IF text # "" THEN ", " \o text ELSE ""

\* InlHeaderFileGenerator.GetCalledByNativeValues(called_by_native), but for
\* GET_METHOD_ID_IMPL; return_type is JavaDataTypeToC of the return type.
GetCalledByNativeValues(called_by_native, class_name, return_type) ==
  [JAVA_CLASS |->
     IF called_by_native.java_class_name # "" THEN called_by_native.java_class_name
     ELSE class_name,
   RETURN_TYPE |->
     IF return_type # "void" /\ RE_SCOPED_JNI_TYPES(return_type)
     THEN "base::android::ScopedJavaLocalRef<" \o return_type \o ">"
     ELSE return_type,
   OPTIONAL_ERROR_RETURN |-> CommaBefore(JavaReturnValueToC(called_by_native.return_type)),
   RETURN_DECLARATION |-> IF return_type # "void" THEN return_type \o " ret =" ELSE "",
   RETURN_CLAUSE |->
     IF return_type = "void" THEN ""
     ELSE IF RE_SCOPED_JNI_TYPES(return_type)
     THEN "return base::android::ScopedJavaLocalRef<" \o return_type \o ">(env, ret);"
     ELSE "return ret;",
   FIRST_PARAM_IN_DECLARATION |->
     IF called_by_native.static \/ called_by_native.is_constructor THEN ""
     ELSE ", const base::android::JavaRefOrBare<jobject>& obj",
   PARAMS_IN_DECLARATION |->
     CommaBefore(GetCalledByNativeParamsInDeclaration(called_by_native)),
   PRE_CALL |->
     (IF return_type # "void" THEN " " ELSE "")
     \o (IF called_by_native.static_cast # ""
         THEN "static_cast<" \o called_by_native.static_cast \o ">(" ELSE ""),
   POST_CALL |-> IF called_by_native.static_cast # "" THEN ")" ELSE "",
   ENV_CALL |-> called_by_native.env_call,
   FIRST_PARAM_IN_CALL |->
     IF called_by_native.static \/ called_by_native.is_constructor
     THEN (IF called_by_native.java_class_name # "" THEN called_by_native.java_class_name
           ELSE class_name) \o "_clazz(env)"
     ELSE "obj.obj()",
   PARAMS_IN_CALL |-> CommaBefore(Join(GetArgumentsInCall(called_by_native.params), ", ")),
   METHOD_ID_VAR_NAME |-> called_by_native.method_id_var_name,
   CHECK_EXCEPTION |->
     IF called_by_native.unchecked THEN "" ELSE "jni_generator::CheckException(env);"]

\* function_signature_template of GetLazyCalledByNativeMethodStub, substituted.
FunctionSignature(v) ==
  "static " \o v.RETURN_TYPE \o " Java_" \o v.JAVA_CLASS \o "_" \o v.METHOD_ID_VAR_NAME
  \o "(JNIEnv* env" \o v.FIRST_PARAM_IN_DECLARATION \o v.PARAMS_IN_DECLARATION \o ")"

\* FUNCTION_HEADER of GetLazyCalledByNativeMethodStub.
FunctionHeader(system_class, function_signature) ==
  IF system_class
  THEN function_signature \o " __attribute__ ((unused));\n" \o function_signature \o " {"
  ELSE function_signature \o " {"

\* The mutation of LazyStubSteps in which the pending exception is checked
\* before the call is made.
LazyStubSteps_CheckFirst(v, get_method_id_impl) ==
  <<"  CHECK_CLAZZ(env, " \o v.FIRST_PARAM_IN_CALL \o ",\n"
    \o "      " \o v.JAVA_CLASS \o "_clazz(env)" \o v.OPTIONAL_ERROR_RETURN \o ");",
    "  jmethodID method_id =\n"
    \o "    " \o get_method_id_impl,
    "  " \o v.CHECK_EXCEPTION,
    "  " \o v.RETURN_DECLARATION \o "\n"
    \o "     " \o v.PRE_CALL \o "env->" \o v.ENV_CALL \o "(" \o v.FIRST_PARAM_IN_CALL \o ",\n"
    \o "          method_id" \o v.PARAMS_IN_CALL \o ")" \o v.POST_CALL \o ";",
    "  " \o v.RETURN_CLAUSE>>

\* The steps of the body of a stub, in the order of the template.
LazyStubSteps(v, get_method_id_impl) ==
  <<"  CHECK_CLAZZ(env, " \o v.FIRST_PARAM_IN_CALL \o ",\n"
    \o "      " \o v.JAVA_CLASS \o "_clazz(env)" \o v.OPTIONAL_ERROR_RETURN \o ");",
    "  jmethodID method_id =\n"
    \o "    " \o get_method_id_impl,
    "  " \o v.RETURN_DECLARATION \o "\n"
    \o "     " \o v.PRE_CALL \o "env->" \o v.ENV_CALL \o "(" \o v.FIRST_PARAM_IN_CALL \o ",\n"
    \o "          method_id" \o v.PARAMS_IN_CALL \o ")" \o v.POST_CALL \o ";",
    "  " \o v.CHECK_EXCEPTION,
    "  " \o v.RETURN_CLAUSE>>

\* The template of GetLazyCalledByNativeMethodStub, substituted.
LazyStubText(system_class, v, get_method_id_impl) ==
  "\n"
  \o "static base::subtle::AtomicWord g_" \o v.JAVA_CLASS \o "_" \o v.METHOD_ID_VAR_NAME
  \o " = 0;\n"
  \o FunctionHeader(system_class, FunctionSignature(v)) \o "\n"
  \o Join(LazyStubSteps(v, get_method_id_impl), "\n") \o "\n"
  \o "}"

\* GetLazyCalledByNativeMethodStub from the return of GetMethodIDImpl on.
LazyStubOf(called_by_native, class_name, method_id) ==
  IF method_id.err # "" THEN method_id
  ELSE [text |-> LazyStubText(called_by_native.system_class,
                              GetCalledByNativeValues(
                                called_by_native, class_name,
                                JavaDataTypeToC(called_by_native.return_type)),
                              method_id.text),
        err |-> "", implicit |-> method_id.implicit]

\* InlHeaderFileGenerator.GetLazyCalledByNativeMethodStub(called_by_native).
GetLazyCalledByNativeMethodStub(called_by_native, class_name, ctx) ==
  LazyStubOf(called_by_native, class_name,
             GetMethodIDImpl(called_by_native, class_name, ctx))

\* InlHeaderFileGenerator.GetLazyCalledByNativeMethodStubs().
RECURSIVE GetLazyCalledByNativeMethodStubs(_, _, _)

StubCons(text, rest) ==
  [texts |-> <<text>> \o rest.texts, err |-> rest.err, implicit |-> rest.implicit]

LazyStubNext(cbns, class_name, ctx, r) ==
  IF r.err # "" THEN [texts |-> <<>>, err |-> r.err, implicit |-> r.implicit]
  ELSE StubCons(r.text,
                GetLazyCalledByNativeMethodStubs(Tail(cbns), class_name,
                                                 [ctx EXCEPT !.implicit = r.implicit]))

GetLazyCalledByNativeMethodStubs(cbns, class_name, ctx) ==
  IF Len(cbns) = 0 THEN [texts |-> <<>>, err |-> "", implicit |-> ctx.implicit]
  ELSE LazyStubNext(cbns, class_name, ctx,
                    GetLazyCalledByNativeMethodStub(Head(cbns), class_name, ctx))

\* InlHeaderFileGenerator.GetConstantFieldsString().
GetConstantFieldsString(constant_fields, class_name) ==
  IF Len(constant_fields) = 0 THEN ""
  ELSE Join(<<"enum Java_" \o class_name \o "_constant_fields {">>
            \o [i \in 1..Len(constant_fields) |->
                  "  " \o constant_fields[i].name \o " = " \o constant_fields[i].value \o ","]
            \o <<"};">>, "\n")

\* The order in which a dict of the given keys is iterated: one fixed order,
\* which the code does not choose.
RECURSIVE DictOrder(_)

DictOrderFrom(first, keys) == <<first>> \o DictOrder(keys \ {first})

DictOrder(keys) ==
  IF keys = {} THEN <<>> ELSE DictOrderFrom(CHOOSE k \in keys : TRUE, keys)

\* entry.java_class_name of the entries of a list of natives.
NativeClassNames(natives_) ==
  [i \in 1..Len(natives_) |->
     IF Truthy(natives_[i].java_class_name) THEN natives_[i].java_class_name.value ELSE ""]

\* entry.java_class_name of the entries of a list of called-by-natives.
CalledByNativeClassNames(cbns) ==
  [i \in 1..Len(cbns) |-> cbns[i].java_class_name]

\* InlHeaderFileGenerator.GetUniqueClasses(origin), origin given by the
\* java_class_name of its entries: the dict from class name to class path.
RECURSIVE GetUniqueClasses(_, _, _)

GetUniqueClasses(origin, class_name, fully_qualified_class) ==
  IF Len(origin) = 0 THEN (class_name :> fully_qualified_class)
  ELSE (IF origin[Len(origin)] # ""
        THEN (origin[Len(origin)] :>
                (fully_qualified_class \o "$" \o origin[Len(origin)]))
        ELSE (class_name :> fully_qualified_class))
       @@ GetUniqueClasses(SubSeq(origin, 1, Len(origin) - 1), class_name,
                           fully_qualified_class)

\* all_classes of GetClassPathDefinitions.
AllClasses(natives_, cbns, class_name, fully_qualified_class, native_exports_optional) ==
  IF native_exports_optional
  THEN GetUniqueClasses(NativeClassNames(natives_), class_name, fully_qualified_class)
       @@ GetUniqueClasses(CalledByNativeClassNames(cbns), class_name, fully_qualified_class)
  ELSE GetUniqueClasses(CalledByNativeClassNames(cbns), class_name, fully_qualified_class)

\* The first template of GetClassPathDefinitions.
ClassPathConstant(clazz, jni_class_path) ==
  "const char k" \o clazz \o "ClassPath[] = \"" \o jni_class_path \o "\";"

\* The second template of GetClassPathDefinitions.
ClassHandle(clazz) ==
  "// Leaking this jclass as we cannot use LazyInstance from some threads.\n"
  \o "base::subtle::AtomicWord g_" \o clazz \o "_clazz __attribute__((unused)) = 0;\n"
  \o "#define " \o clazz \o "_clazz(env) "
  \o "base::android::LazyGetClass(env, k" \o clazz \o "ClassPath, "
  \o "&g_" \o clazz \o "_clazz)"

\* The lines GetClassPathDefinitions joins, all_classes iterated in order.
ClassPathLines(all_classes, order) ==
  [i \in 1..Len(order) |-> ClassPathConstant(order[i], all_classes[order[i]])]
  \o [i \in 1..Len(order) |-> ClassHandle(order[i])]

\* The mutation of GetClassPathDefinitions that emits the definitions of a
\* class once for every called-by-native that names it.
GetClassPathDefinitions_PerDeclaration(natives_, cbns, class_name, fully_qualified_class, native_exports_optional) ==
  Join(ClassPathLines(AllClasses(natives_, cbns, class_name, fully_qualified_class,
                                 native_exports_optional),
                      <<class_name>> \o SelectSeq(CalledByNativeClassNames(cbns),
                                                  LAMBDA c : c # "")),
       "\n")

\* InlHeaderFileGenerator.GetClassPathDefinitions().
GetClassPathDefinitions(natives_, cbns, class_name, fully_qualified_class, native_exports_optional) ==
  Join(ClassPathLines(AllClasses(natives_, cbns, class_name, fully_qualified_class,
                                 native_exports_optional),
                      DictOrder(DOMAIN AllClasses(natives_, cbns, class_name,
                                                  fully_qualified_class,
                                                  native_exports_optional))),
       "\n")

\* What a construction of content ends with: the exception ("" when none), the
\* content, JniParams as it is left, and the values GetContent substituted.
Built(e, text, ctx) == [err |-> e, content |-> text, ctx |-> ctx, values |-> NoValues]

\* The template of GetKMethodArrayEntry, substituted.
KMethodArrayEntryText(native, fully_qualified_class, sig) ==
  IF sig.err # "" THEN sig
  ELSE [text |-> "    { \"native" \o native.name \o "\", " \o sig.text \o ", "
                 \o "reinterpret_cast<void*>("
                 \o GetStubName(native, fully_qualified_class) \o ") },",
        err |-> "", implicit |-> sig.implicit]

\* InlHeaderFileGenerator.GetKMethodArrayEntry(native).
GetKMethodArrayEntry(native, fully_qualified_class, ctx) ==
  KMethodArrayEntryText(native, fully_qualified_class,
                        Signature(native.params, native.return_type, TRUE, ctx))

\* The natives GetKMethodsString takes for clazz.
NativesOfClass(natives_, clazz, class_name) ==
  SelectSeq([i \in 1..Len(natives_) |->
               [native |-> natives_[i],
                in_class |-> \/ NativeClassNames(natives_)[i] = clazz
                             \/ /\ NativeClassNames(natives_)[i] = ""
                                /\ clazz = class_name]],
            LAMBDA e : e.in_class)

\* The entries of GetKMethodsString, in the order of the natives.
RECURSIVE KMethodEntries(_, _, _)

KMethodEntriesNext(entries, fully_qualified_class, ctx, r) ==
  IF r.err # "" THEN [texts |-> <<>>, err |-> r.err, implicit |-> r.implicit]
  ELSE StubCons(r.text,
                KMethodEntries(Tail(entries), fully_qualified_class,
                               [ctx EXCEPT !.implicit = r.implicit]))

KMethodEntries(entries, fully_qualified_class, ctx) ==
  IF Len(entries) = 0 THEN [texts |-> <<>>, err |-> "", implicit |-> ctx.implicit]
  ELSE KMethodEntriesNext(entries, fully_qualified_class, ctx,
                          GetKMethodArrayEntry(Head(entries).native,
                                               fully_qualified_class, ctx))

\* The return of GetKMethodsString from its entries.
KMethodsJoined(r) ==
  [text |-> Join(r.texts, "\n"), err |-> r.err, implicit |-> r.implicit]

\* InlHeaderFileGenerator.GetKMethodsString(clazz).
GetKMethodsString(natives_, clazz, class_name, fully_qualified_class, ctx) ==
  KMethodsJoined(KMethodEntries(NativesOfClass(natives_, clazz, class_name),
                                fully_qualified_class, ctx))

\* The template of GetJNINativeMethodsString, substituted.
KMethodsTable(clazz, kmethods) ==
  "static const JNINativeMethod kMethods" \o clazz \o "[] = {\n"
  \o kmethods \o "\n"
  \o "};\n"

\* The mutation of RegisterNativesCall whose block does not return.
RegisterNativesCall_NoReturn(clazz) ==
  "  const int kMethods" \o clazz \o "Size = arraysize(kMethods" \o clazz \o ");\n"
  \o "\n"
  \o "  if (env->RegisterNatives(" \o clazz \o "_clazz(env),\n"
  \o "                           kMethods" \o clazz \o ",\n"
  \o "                           kMethods" \o clazz \o "Size) < 0) {\n"
  \o "    jni_generator::HandleRegistrationError(\n"
  \o "        env, " \o clazz \o "_clazz(env), __FILE__);\n"
  \o "  }\n"

\* The template of GetRegisterNativesImplString, substituted.
RegisterNativesCall(clazz) ==
  "  const int kMethods" \o clazz \o "Size = arraysize(kMethods" \o clazz \o ");\n"
  \o "\n"
  \o "  if (env->RegisterNatives(" \o clazz \o "_clazz(env),\n"
  \o "                           kMethods" \o clazz \o ",\n"
  \o "                           kMethods" \o clazz \o "Size) < 0) {\n"
  \o "    jni_generator::HandleRegistrationError(\n"
  \o "        env, " \o clazz \o "_clazz(env), __FILE__);\n"
  \o "    return false;\n"
  \o "  }\n"

\* template.substitute(values) of SubstituteNativeMethods, for either template.
SubstituteTemplate(template, clazz, kmethods) ==
  IF template = "kMethods" THEN KMethodsTable(clazz, kmethods)
  ELSE RegisterNativesCall(clazz)

\* The loop of SubstituteNativeMethods over all_classes: the classes that have
\* kmethods, and the substituted templates.
RECURSIVE SubstituteLoop(_, _, _, _, _, _)

SubstituteCons(clazz, text, rest) ==
  [classes |-> <<clazz>> \o rest.classes, texts |-> <<text>> \o rest.texts,
   err |-> rest.err, implicit |-> rest.implicit]

SubstituteNext(template, order, natives_, class_name, fully_qualified_class, ctx, r) ==
  IF r.err # ""
  THEN [classes |-> <<>>, texts |-> <<>>, err |-> r.err, implicit |-> r.implicit]
  ELSE IF r.text = ""
  THEN SubstituteLoop(template, Tail(order), natives_, class_name, fully_qualified_class,
                      [ctx EXCEPT !.implicit = r.implicit])
  ELSE SubstituteCons(Head(order), SubstituteTemplate(template, Head(order), r.text),
                      SubstituteLoop(template, Tail(order), natives_, class_name,
                                     fully_qualified_class,
                                     [ctx EXCEPT !.implicit = r.implicit]))

SubstituteLoop(template, order, natives_, class_name, fully_qualified_class, ctx) ==
  IF Len(order) = 0
  THEN [classes |-> <<>>, texts |-> <<>>, err |-> "", implicit |-> ctx.implicit]
  ELSE SubstituteNext(template, order, natives_, class_name, fully_qualified_class, ctx,
                      GetKMethodsString(natives_, Head(order), class_name,
                                        fully_qualified_class, ctx))

\* The return of SubstituteNativeMethods from its list ret.
SubstituteJoined(r) ==
  [text |-> IF Len(r.texts) = 0 THEN "" ELSE "\n" \o Join(r.texts, "\n"),
   classes |-> r.classes, err |-> r.err, implicit |-> r.implicit]

\* InlHeaderFileGenerator.SubstituteNativeMethods(template).
SubstituteNativeMethods(template, natives_, class_name, fully_qualified_class, ctx) ==
  SubstituteJoined(
    SubstituteLoop(template,
                   DictOrder(DOMAIN GetUniqueClasses(NativeClassNames(natives_), class_name,
                                                     fully_qualified_class)),
                   natives_, class_name, fully_qualified_class, ctx))

\* What the two functions return when native_exports_optional is off.
NoNativeMethods(ctx) == [text |-> "", classes |-> <<>>, err |-> "", implicit |-> ctx.implicit]

\* InlHeaderFileGenerator.GetJNINativeMethodsString().
GetJNINativeMethodsString(natives_, class_name, fully_qualified_class, native_exports_optional, ctx) ==
  IF ~native_exports_optional THEN NoNativeMethods(ctx)
  ELSE SubstituteNativeMethods("kMethods", natives_, class_name, fully_qualified_class, ctx)

\* The mutation of GetRegisterNativesImplString that does not look at
\* native_exports_optional.
GetRegisterNativesImplString_Always(natives_, class_name, fully_qualified_class, native_exports_optional, ctx) ==
  SubstituteNativeMethods("register", natives_, class_name, fully_qualified_class, ctx)

\* InlHeaderFileGenerator.GetRegisterNativesImplString().
GetRegisterNativesImplString(natives_, class_name, fully_qualified_class, native_exports_optional, ctx) ==
  IF ~native_exports_optional THEN NoNativeMethods(ctx)
  ELSE SubstituteNativeMethods("register", natives_, class_name, fully_qualified_class, ctx)

\* The template of GetRegisterNativesString, substituted.
RegisterNativesText(native_exports_optional, impl) ==
  IF impl.err # "" \/ impl.text = "" THEN impl
  ELSE [impl EXCEPT !.text =
          "static bool RegisterNativesImpl(JNIEnv* env) {\n"
          \o (IF native_exports_optional
              THEN "  if (base::android::IsManualJniRegistrationDisabled()) return true;\n"
              ELSE "")
          \o "\n"
          \o impl.text \o "\n"
          \o "  return true;\n"
          \o "}\n"]

\* InlHeaderFileGenerator.GetRegisterNativesString().
GetRegisterNativesString(natives_, class_name, fully_qualified_class, native_exports_optional, ctx) ==
  RegisterNativesText(native_exports_optional,
                      GetRegisterNativesImplString(natives_, class_name,
                                                   fully_qualified_class,
                                                   native_exports_optional, ctx))

\* InlHeaderFileGenerator.GetOpenNamespaceString(); namespace is "" when there
\* is none.
GetOpenNamespaceString(namespace) ==
  IF namespace # ""
  THEN Join([i \in 1..Len(Split(namespace, "::")) |->
               "namespace " \o Split(namespace, "::")[i] \o " {"], "\n")
  ELSE ""

\* InlHeaderFileGenerator.GetCloseNamespaceString().
GetCloseNamespaceString(namespace) ==
  IF namespace # ""
  THEN Join([i \in 1..Len(Split(namespace, "::")) |->
               "}  // namespace "
               \o Split(namespace, "::")[Len(Split(namespace, "::")) + 1 - i]], "\n")
       \o "\n"
  ELSE ""

\* InlHeaderFileGenerator.GetIncludesString().
GetIncludesString(includes) ==
  IF includes = "" THEN ""
  ELSE Join([i \in 1..Len(Split(includes, ",")) |->
               "#include \"" \o Split(includes, ",")[i] \o "\""], "\n")

\* InlHeaderFileGenerator.GetMethodStubsString(), lazy being the return of
\* GetLazyCalledByNativeMethodStubs.
MethodStubsString(natives_, fully_qualified_class, lazy) ==
  Join([i \in 1..Len(natives_) |-> GetNativeStub(natives_[i], fully_qualified_class).text]
       \o lazy.texts, "\n")

\* self.class_name of InlHeaderFileGenerator.__init__.
ClassNameOf(fully_qualified_class) ==
  Split(fully_qualified_class, "/")[Len(Split(fully_qualified_class, "/"))]

\* self.header_guard of InlHeaderFileGenerator.__init__.
HeaderGuardOf(fully_qualified_class) == Replace(fully_qualified_class, "/", "_") \o "_JNI"

\* The mutation of Sections in which the registration tables and the routine
\* come before the method stubs.
Sections_StubsLast(v) ==
  <<"#ifndef " \o v.HEADER_GUARD \o "\n"
    \o "#define " \o v.HEADER_GUARD \o "\n",
    "// Step 1: forward declarations.\n"
    \o "namespace {\n"
    \o v.CLASS_PATH_DEFINITIONS \o "\n"
    \o "\n"
    \o "}  // namespace\n",
    v.OPEN_NAMESPACE \o "\n",
    v.CONSTANT_FIELDS \o "\n",
    "// Step 3: RegisterNatives.\n"
    \o v.JNI_NATIVE_METHODS \o "\n"
    \o v.REGISTER_NATIVES \o "\n",
    "// Step 2: method stubs.\n"
    \o v.METHOD_STUBS \o "\n"
    \o v.CLOSE_NAMESPACE \o "\n",
    "#endif  // " \o v.HEADER_GUARD \o "\n">>

\* The sections of the template of GetContent, in its order, each with the
\* lines of the template that come before it.
Sections(v) ==
  <<"// Copyright 2014 The Chromium Authors. All rights reserved.\n"
    \o "// Use of this source code is governed by a BSD-style license that can be\n"
    \o "// found in the LICENSE file.\n"
    \o "\n"
    \o "\n"
    \o "// This file is autogenerated by\n"
    \o "//     " \o v.SCRIPT_NAME \o "\n"
    \o "// For\n"
    \o "//     " \o v.FULLY_QUALIFIED_CLASS \o "\n",
    "#ifndef " \o v.HEADER_GUARD \o "\n"
    \o "#define " \o v.HEADER_GUARD \o "\n",
    "#include <jni.h>\n"
    \o "\n"
    \o v.INCLUDES \o "\n"
    \o "\n"
    \o "#include \"base/android/jni_int_wrapper.h\"\n",
    "// Step 1: forward declarations.\n"
    \o "namespace {\n"
    \o v.CLASS_PATH_DEFINITIONS \o "\n"
    \o "\n"
    \o "}  // namespace\n",
    v.OPEN_NAMESPACE \o "\n",
    v.CONSTANT_FIELDS \o "\n",
    "// Step 2: method stubs.\n"
    \o v.METHOD_STUBS \o "\n",
    "// Step 3: RegisterNatives.\n"
    \o v.JNI_NATIVE_METHODS \o "\n"
    \o v.REGISTER_NATIVES \o "\n"
    \o v.CLOSE_NAMESPACE \o "\n",
    "#endif  // " \o v.HEADER_GUARD \o "\n">>

\* template.substitute(values) of GetContent.
Substituted(v) == Join(Sections(v), "\n")

\* GetContent from the values on: the assertion, and the substituted template.
ContentOf(v, ctx) ==
  IF (v.JNI_NATIVE_METHODS = "") # (v.REGISTER_NATIVES = "")
  THEN Built("AssertionError", "", ctx)
  ELSE [Built("", Substituted(v), ctx) EXCEPT !.values = v]

\* The dict values of GetContent, the three values that call JniParams given
\* by what they returned.
ContentValues(namespace, fully_qualified_class, natives_, cbns, constant_fields, options, lazy, tables, routine) ==
  [SCRIPT_NAME |-> options.script_name,
   FULLY_QUALIFIED_CLASS |-> fully_qualified_class,
   CLASS_PATH_DEFINITIONS |->
     GetClassPathDefinitions(natives_, cbns, ClassNameOf(fully_qualified_class),
                             fully_qualified_class, options.native_exports_optional),
   CONSTANT_FIELDS |->
     GetConstantFieldsString(constant_fields, ClassNameOf(fully_qualified_class)),
   METHOD_STUBS |-> MethodStubsString(natives_, fully_qualified_class, lazy),
   OPEN_NAMESPACE |-> GetOpenNamespaceString(namespace),
   JNI_NATIVE_METHODS |-> tables.text,
   REGISTER_NATIVES |-> routine.text,
   CLOSE_NAMESPACE |-> GetCloseNamespaceString(namespace),
   HEADER_GUARD |-> HeaderGuardOf(fully_qualified_class),
   INCLUDES |-> GetIncludesString(options.includes)]

\* GetContent from the return of GetRegisterNativesString on.
ContentAfterRoutine(namespace, fully_qualified_class, natives_, cbns, constant_fields, options, ctx, lazy, tables, routine) ==
  IF routine.err # "" THEN Built(routine.err, "", [ctx EXCEPT !.implicit = routine.implicit])
  ELSE ContentOf(ContentValues(namespace, fully_qualified_class, natives_, cbns,
                               constant_fields, options, lazy, tables, routine),
                 [ctx EXCEPT !.implicit = routine.implicit])

\* GetContent from the return of GetJNINativeMethodsString on.
ContentAfterTables(namespace, fully_qualified_class, natives_, cbns, constant_fields, options, ctx, lazy, tables) ==
  IF tables.err # "" THEN Built(tables.err, "", [ctx EXCEPT !.implicit = tables.implicit])
  ELSE ContentAfterRoutine(
         namespace, fully_qualified_class, natives_, cbns, constant_fields, options, ctx,
         lazy, tables,
         GetRegisterNativesString(natives_, ClassNameOf(fully_qualified_class),
                                  fully_qualified_class, options.native_exports_optional,
                                  [ctx EXCEPT !.implicit = tables.implicit]))

\* GetContent from the return of GetLazyCalledByNativeMethodStubs on.
ContentAfterStubs(namespace, fully_qualified_class, natives_, cbns, constant_fields, options, ctx, lazy) ==
  IF lazy.err # "" THEN Built(lazy.err, "", [ctx EXCEPT !.implicit = lazy.implicit])
  ELSE ContentAfterTables(
         namespace, fully_qualified_class, natives_, cbns, constant_fields, options, ctx,
         lazy,
         GetJNINativeMethodsString(natives_, ClassNameOf(fully_qualified_class),
                                   fully_qualified_class, options.native_exports_optional,
                                   [ctx EXCEPT !.implicit = lazy.implicit]))

\* InlHeaderFileGenerator(namespace, fully_qualified_class, natives,
\* called_by_natives, constant_fields, options).GetContent(), up to the call
\* of WrapOutput.
GetContent(namespace, fully_qualified_class, natives_, cbns, constant_fields, options, ctx) ==
  ContentAfterStubs(namespace, fully_qualified_class, natives_, cbns, constant_fields,
                    options, ctx,
                    GetLazyCalledByNativeMethodStubs(
                      cbns, ClassNameOf(fully_qualified_class), ctx))

\* ExtractJNINamespace(contents), the contents given by the values of the
\* @JNINamespace annotations findall finds in it.
ExtractJNINamespace(jni_namespaces) ==
  IF Len(jni_namespaces) = 0 THEN "" ELSE jni_namespaces[1]

\* The mutation of SourceNamespace in which the --namespace option is not read.
SourceNamespace_NoOption(jni_namespaces, options) == ExtractJNINamespace(jni_namespaces)

\* jni_namespace of JNIFromJavaSource.__init__; "" is no namespace.
SourceNamespace(jni_namespaces, options) ==
  IF ExtractJNINamespace(jni_namespaces) # "" THEN ExtractJNINamespace(jni_namespaces)
  ELSE options.namespace

\* self.namespace of JNIFromJavaP.__init__.
JavaPNamespace(fully_qualified_class, options) ==
  IF options.namespace # "" THEN options.namespace
  ELSE "JNI_" \o ClassNameOf(fully_qualified_class)

\* JNIFromJavaSource.__init__ from the return of ExtractCalledByNatives on: m is
\* what it returned or raised.
SourceContent(jni_namespace, fully_qualified_class, natives_, options, ctx, m) ==
  IF m.err # "" THEN Built(m.err, "", [ctx EXCEPT !.implicit = m.implicit])
  ELSE IF Len(natives_) = 0 /\ Len(m.list) = 0
  THEN Built("SyntaxError", "", [ctx EXCEPT !.implicit = m.implicit])
  ELSE GetContent(jni_namespace, fully_qualified_class, natives_, m.list, <<>>, options,
                  [ctx EXCEPT !.implicit = m.implicit])

\* JNIFromJavaSource.__init__ after ExtractImportsAndInnerClasses, which left
\* the imports as in added.
SourceExtracted(input, options, ctx, added) ==
  IF added.err # "" THEN Built(added.err, "", [ctx EXCEPT !.imports = added.imports])
  ELSE SourceContent(
         SourceNamespace(input.jni_namespaces, options),
         input.file.fqc,
         [i \in 1..Len(input.native_decls) |->
            NativeOfMatch(input.native_decls[i], options.ptr_type)],
         options,
         [ctx EXCEPT !.imports = added.imports],
         CalledByNativesOf(input.matches, input.unmatched_lines,
                           [ctx EXCEPT !.imports = added.imports]))

\* JNIFromJavaSource.__init__ after SetFullyQualifiedClass.
SourceStarted(input, options, ctx) ==
  IF ctx.package = "" THEN Built("RuntimeError", "", ctx)
  ELSE SourceExtracted(
         input, options,
         [ctx EXCEPT !.inner = ctx.inner \o InnerClassesOf(ctx.fqc, input.file.classes)],
         AddAdditionalImports(ctx.imports \o ImportsOf(input.file.imports), ctx.package,
                              AdditionalNames(input.file.additional)))

\* JNIFromJavaSource.CreateFromFile(java_file_name, options) and GetContent();
\* a file without a package line has no fully qualified class.
JNIFromJavaSource(input, options, ctx) ==
  IF input.file.fqc = "" THEN Built("SyntaxError", "", ctx)
  ELSE SourceStarted(input, options,
                     [ctx EXCEPT !.fqc = FullyQualifiedClassOf(input.file.fqc),
                                 !.package = PackageOf(input.file.fqc)])

\* The part of s before the first sep: s.split(sep, 1)[0].
Before(s, sep) == IF Contains(s, sep) THEN SubSeq(s, 1, Index(s, sep) - 1) ELSE s

\* The CalledByNative objects JNIFromJavaP.__init__ builds from the method
\* lines and then from the constructor lines; the first ValueError of
\* ParseJavaPSignature ends the loop.
RECURSIVE JavaPMethods(_)

JavaPCons(item, rest) == [list |-> <<item>> \o rest.list, err |-> rest.err]

JavaPMethod(line, signature) ==
  CalledByNative([system_class |-> TRUE,
                  unchecked |-> FALSE,
                  static |-> Contains(line.prefix, "static"),
                  java_class_name |-> "",
                  return_type |-> Replace(line.return_type, ".", "/"),
                  name |-> line.name,
                  params |-> Parse(Replace(line.params, ".", "/")),
                  signature |-> Group(signature),
                  is_constructor |-> line.is_constructor])

JavaPNext(methods, sig) ==
  IF ~sig.ok THEN [list |-> <<>>, err |-> sig.val]
  ELSE JavaPCons(JavaPMethod(Head(methods), sig.val), JavaPMethods(Tail(methods)))

JavaPMethods(methods) ==
  IF Len(methods) = 0 THEN [list |-> <<>>, err |-> ""]
  ELSE JavaPNext(methods, ParseJavaPSignature(Head(methods).next_line))

\* A constructor line, as the second loop of JNIFromJavaP.__init__ reads it.
ConstructorLine(fully_qualified_class, c) ==
  [prefix |-> "", return_type |-> fully_qualified_class, name |-> "Constructor",
   params |-> c.params, next_line |-> c.next_line, is_constructor |-> TRUE]

MethodLine(m) ==
  [prefix |-> m.prefix, return_type |-> m.return_type, name |-> m.name,
   params |-> m.params, next_line |-> m.next_line, is_constructor |-> FALSE]

\* The constant fields JNIFromJavaP.__init__ keeps: those with a value line.
ConstantFields(fields) ==
  SelectSeq(fields, LAMBDA f : f.has_value)

\* JNIFromJavaP.__init__ after MangleCalledByNatives, and GetContent().
JavaPContent(fully_qualified_class, fields, options, ctx, m) ==
  IF m.err # "" THEN Built(m.err, "", [ctx EXCEPT !.implicit = m.implicit])
  ELSE GetContent(JavaPNamespace(fully_qualified_class, options), fully_qualified_class,
                  <<>>, m.list, ConstantFields(fields), options,
                  [ctx EXCEPT !.implicit = m.implicit])

\* JNIFromJavaP.__init__ after the two loops, which ended as parsed.
JavaPParsed(fully_qualified_class, fields, options, ctx, parsed) ==
  IF parsed.err # "" THEN Built(parsed.err, "", ctx)
  ELSE JavaPContent(fully_qualified_class, fields, options, ctx,
                    MangleCalledByNatives(parsed.list, ctx))

\* JNIFromJavaP.__init__ after SetFullyQualifiedClass.
JavaPStarted(fully_qualified_class, javap, options, ctx) ==
  JavaPParsed(fully_qualified_class, javap.fields, options, ctx,
              JavaPMethods([i \in 1..Len(javap.methods) |-> MethodLine(javap.methods[i])]
                           \o [i \in 1..Len(javap.constructors) |->
                                 ConstructorLine(fully_qualified_class, javap.constructors[i])]))

\* JNIFromJavaP.CreateFromClass(class_file, options) and GetContent(); a
\* listing without a 'public class' line leaves fully_qualified_class unset.
JNIFromJavaP(javap, options, ctx) ==
  IF javap.class_name = "" THEN Built("AttributeError", "", ctx)
  ELSE JavaPStarted(Before(Replace(javap.class_name, ".", "/"), "<"), javap, options,
                    [ctx EXCEPT
                       !.fqc = FullyQualifiedClassOf(Before(Replace(javap.class_name, ".", "/"), "<")),
                       !.package = PackageOf(Before(Replace(javap.class_name, ".", "/"), "<"))])

\* The try block of GenerateJNIHeader.
TryContent(input, options, ctx) ==
  IF input.ext = ".class" THEN JNIFromJavaP(input.javap, options, ctx)
  ELSE JNIFromJavaSource(input, options, ctx)

\* The options main parses that the construction of content reads.
Options(ptr, namespace, native_exports_optional) ==
  [ptr_type |-> ptr, namespace |-> namespace,
   native_exports_optional |-> native_exports_optional,
   includes |-> "base/android/jni_generator/jni_generator_helper.h",
   script_name |-> "base/android/jni_generator/jni_generator.py"]

\* JniParams at the start of a process.
Ctx0 == [imports |-> <<>>, fqc |-> "", package |-> "", inner |-> <<>>, implicit |-> <<>>]

\* The native declaration and the called-by-native matches of the inputs.
PeerDecl ==
  [native_class_name |-> NoGroup, java_class_name |-> NoGroup, qualifiers |-> "private",
   return_type |-> "void", name |-> "nativeDestroy",
   first |-> [present |-> TRUE, mods |-> "", type |-> "long", name |-> "nativeFoo"],
   rest |-> ", String[] names"]

JavaPMethodLine(prefix, return_type, name, params, next_line) ==
  [prefix |-> prefix, return_type |-> return_type, name |-> name, params |-> params,
   next_line |-> next_line]

NoJavaP == JavaP("", <<>>, <<>>, <<>>)
Clean == <<"class Foo {", "}">>
FooFile == File("p/Foo", <<"java.net.URL">>, <<"Foo">>, <<>>)

\* The input files: Java sources and .class files with the listing javap gives.
GenInputs ==
  { Input(".java", FooFile, <<PeerDecl>>, <<>>, Clean, NoJavaP),
    WithJNINamespace(Input(".java", FooFile, <<PeerDecl>>, <<>>, Clean, NoJavaP),
                     <<"content", "ui">>),
    Input(".java", FooFile, <<>>,
          <<Match("", "public ", "f", "int i"), Match("Inner", "static ", "g", "Foo a")>>,
          Clean, NoJavaP),
    Input(".java", FooFile, <<PeerDecl>>, <<Match("", "public ", "f", "int i")>>,
          <<"@CalledByNative", "int broken;", "}">>, NoJavaP),
    Input(".java", FooFile, <<>>, <<>>, Clean, NoJavaP),
    Input(".java", FooFile, <<PeerDecl>>, <<>>, <<"class Foo {", "}", "// @CalledByNative">>,
          NoJavaP),
    Input(".java", FooFile, <<PeerDecl>>, <<Match("", "public ", "g", "Thread t")>>,
          Clean, NoJavaP),
    Input(".java", FooFile, <<PeerDecl>>, <<Match("", "public ", "f", "int i")>>,
          Clean, NoJavaP),
    Input(".java", FooFile, <<>>,
          <<Match("", "public ", "f", "Thread t"), Match("", "public ", "f", "int i")>>,
          Clean, NoJavaP),
    Input(".java", File("", <<>>, <<"Foo">>, <<>>), <<PeerDecl>>, <<>>, Clean, NoJavaP),
    Input(".java", File("q/Baz", <<>>, <<"Baz">>, <<"a.B.class">>), <<PeerDecl>>, <<>>,
          Clean, NoJavaP),
    Input(".class", NoFile, <<>>, <<>>, <<>>,
          JavaP("java.util.HashSet<E>",
                <<JavaPMethodLine("  public ", "boolean", "add", "E",
                                  "    Signature: (Ljava/lang/Object;)Z")>>,
                <<[params |-> "int", next_line |-> "    descriptor: (I)V"]>>,
                <<[name |-> "MAX", has_value |-> TRUE, value |-> "7"]>>)),
    Input(".class", NoFile, <<>>, <<>>, <<>>, NoJavaP),
    Input(".class", NoFile, <<>>, <<>>, <<>>,
          JavaP("java.util.HashSet<E>",
                <<JavaPMethodLine("  public ", "int", "size", "", "    flags: ACC_PUBLIC")>>,
                <<>>, <<>>)) }

\* What an output file may hold before a run: some other text, or the content
\* an earlier run has written.
PriorTexts ==
  {"// stale"} \cup
  { TryContent(i, Options("long", "", n), Ctx0).content :
      i \in {j \in GenInputs :
               \A n \in BOOLEAN : TryContent(j, Options("long", "", n), Ctx0).err = ""},
      n \in BOOLEAN }

\* The process has started; the directory and the file named by --output_dir
\* are as earlier runs have left them.
InitGenerate ==
  /\ _imports = <<>>
  /\ _fully_qualified_class = ""
  /\ _package = ""
  /\ _inner_classes = <<>>
  /\ _implicit_imports = <<>>
  /\ RunIdle
  /\ CbnIdle
  /\ HeaderIdle
  /\ NatIdle
  /\ gen_pc = "idle"
  /\ gen_in = NoArgs
  /\ content = ""
  /\ out_dir \in BOOLEAN
  /\ out_file \in {NoOutput} \cup {[exists |-> TRUE, text |-> t] : t \in PriorTexts}
  /\ out_file.exists => out_dir
  /\ stdout = <<>>
  /\ exit_status = ""

\* main(argv) up to the call of GenerateJNIHeader: the options are parsed.
main(input, output_file, optimize_generation, ptr, namespace, native_exports_optional) ==
  /\ gen_pc = "idle"
  /\ gen_in' = [input |-> input, output_file |-> output_file,
                optimize_generation |-> optimize_generation,
                namespace |-> namespace,
                native_exports_optional |-> native_exports_optional]
  /\ ptr_type' = ptr
  /\ gen_pc' = "try"
  /\ UNCHANGED <<jniVars, runVars, cbnVars, hdrVars, nat_in, natives, stubs, nat_pc,
                 content, out_dir, out_file, stdout, exit_status>>

\* The mutation of AfterTry in which no exception leaves the try block.
AfterTry_Swallowed(e) == "built"

\* Where GenerateJNIHeader stands after the try block: behind it, in the
\* handler of ParseError, or left by any other exception.
AfterTry(e) ==
  IF e = "" THEN "built" ELSE IF e = "ParseError" THEN "except" ELSE "raised"

\* The effect of the try block that ended as r.
Tried(r) ==
  /\ _imports' = r.ctx.imports
  /\ _fully_qualified_class' = r.ctx.fqc
  /\ _package' = r.ctx.package
  /\ _inner_classes' = r.ctx.inner
  /\ _implicit_imports' = r.ctx.implicit
  /\ content' = r.content
  /\ gen_pc' = AfterTry(r.err)
  /\ exit_status' = IF r.err \notin {"", "ParseError"} THEN r.err ELSE ""

\* GenerateJNIHeader: the try block.
CreateContent ==
  /\ gen_pc = "try"
  /\ Tried(TryContent(gen_in.input,
                       Options(ptr_type, gen_in.namespace, gen_in.native_exports_optional),
                       Ctx))
  /\ UNCHANGED <<runVars, cbnVars, hdrVars, natVars, gen_in, out_dir, out_file, stdout>>

\* GenerateJNIHeader: except ParseError, e: print e; sys.exit(1).
ExceptParseError ==
  /\ gen_pc = "except"
  /\ stdout' = Append(stdout, "***\nERROR: could not parse @CalledByNative method signature")
  /\ exit_status' = "exit 1"
  /\ gen_pc' = "exited"
  /\ UNCHANGED <<jniVars, runVars, cbnVars, hdrVars, natVars, gen_in, content, out_dir, out_file>>

\* GenerateJNIHeader: no output_file, print content.
PrintContent ==
  /\ gen_pc = "built"
  /\ ~gen_in.output_file
  /\ stdout' = Append(stdout, content)
  /\ exit_status' = "returned"
  /\ gen_pc' = "returned"
  /\ UNCHANGED <<jniVars, runVars, cbnVars, hdrVars, natVars, gen_in, content, out_dir, out_file>>

\* GenerateJNIHeader: os.makedirs when the directory of output_file is missing.
MakeDirs ==
  /\ gen_pc = "built"
  /\ gen_in.output_file
  /\ out_dir' = TRUE
  /\ gen_pc' = "compare"
  /\ UNCHANGED <<jniVars, runVars, cbnVars, hdrVars, natVars, gen_in, content, out_file, stdout,
                 exit_status>>

\* The mutation of CompareExisting that never reads the existing file.
CompareExisting_Never ==
  /\ gen_pc = "compare"
  /\ gen_pc' = "open"
  /\ UNCHANGED <<jniVars, runVars, cbnVars, hdrVars, natVars, gen_in, content, out_dir, out_file, stdout,
                 exit_status>>

\* GenerateJNIHeader: with optimize_generation, an existing file with the same
\* content ends the call ("kept": the return inside the with block).
CompareExisting ==
  /\ gen_pc = "compare"
  /\ IF gen_in.optimize_generation # 0 /\ out_file.exists /\ out_file.text = content
     THEN gen_pc' = "kept" /\ exit_status' = "returned"
     ELSE gen_pc' = "open" /\ UNCHANGED exit_status
  /\ UNCHANGED <<jniVars, runVars, cbnVars, hdrVars, natVars, gen_in, content, out_dir, out_file, stdout>>

\* GenerateJNIHeader: file(output_file, 'w') creates or truncates the file.
OpenOutput ==
  /\ gen_pc = "open"
  /\ out_file' = [exists |-> TRUE, text |-> ""]
  /\ gen_pc' = "write"
  /\ UNCHANGED <<jniVars, runVars, cbnVars, hdrVars, natVars, gen_in, content, out_dir, stdout,
                 exit_status>>

\* GenerateJNIHeader: f.write(content), and the file is closed.
WriteOutput ==
  /\ gen_pc = "write"
  /\ out_file' = [exists |-> TRUE, text |-> content]
  /\ exit_status' = "returned"
  /\ gen_pc' = "returned"
  /\ UNCHANGED <<jniVars, runVars, cbnVars, hdrVars, natVars, gen_in, content, out_dir, stdout>>

NextGenerate ==
  \/ \E i \in GenInputs, o \in BOOLEAN, g \in {0, 1}, p \in {"int", "long"},
        n \in {"", "base::android"}, r \in BOOLEAN :
       main(i, o, g, p, n, r)
  \/ CreateContent
  \/ ExceptParseError
  \/ PrintContent
  \/ MakeDirs
  \/ CompareExisting
  \/ OpenOutput
  \/ WriteOutput

SpecGenerate == InitGenerate /\ [][NextGenerate]_vars

\* The content the input of the running call has when it is built alone.
C10_Whole ==
  TryContent(gen_in.input,
             Options(ptr_type, gen_in.namespace, gen_in.native_exports_optional), Ctx0)

\* C10: whenever building the content fails, GenerateJNIHeader has not created,
\* truncated or written the output file or its directory and has printed no
\* header text; a step that changes the file or the directory, or prints
\* content, is taken only when the whole content was built without an
\* exception, and what is written or printed is that content.
C10_AllOrNothing ==
  [][ /\ (out_file' # out_file \/ out_dir' # out_dir)
           => /\ gen_pc \in {"built", "open", "write"}
              /\ C10_Whole.err = ""
              /\ content = C10_Whole.content
              /\ out_file'.text \in {"", content}
      /\ stdout' # stdout
           => \/ /\ gen_pc = "built"
                 /\ C10_Whole.err = ""
                 /\ stdout' = Append(stdout, C10_Whole.content)
              \/ /\ gen_pc = "except"
                 /\ C10_Whole.err = "ParseError"
                 /\ stdout' = Append(stdout, "***\nERROR: could not parse @CalledByNative method signature")
      /\ gen_pc' \in {"except", "raised", "exited"}
           => /\ out_file' = out_file
              /\ out_dir' = out_dir
              /\ content' = ""
              /\ C10_Whole.err # "" ]_vars

\* A failed run that was to write a file: the resolver raised while the content
\* was built, and neither the directory nor the file exists.
C10_Witness ==
  /\ gen_pc = "raised"
  /\ exit_status = "SyntaxError: ambiguous class"
  /\ gen_in.output_file
  /\ ~out_dir
  /\ ~out_file.exists
  /\ stdout = <<>>
  /\ Len(gen_in.input.native_decls) = 1

\* C11: with optimize_generation, a run whose content is identical to the
\* existing output file takes no step that changes the file, so a file that
\* holds the content of an earlier run on the same input stays as it is; a run
\* that returns after the comparison found a difference, or no file, has
\* rewritten the file with its content.
C11_SkipUnchanged ==
  [][ /\ ( /\ gen_pc \notin {"idle", "kept", "returned"}
           /\ gen_in.optimize_generation # 0
           /\ gen_in.output_file
           /\ out_file.exists
           /\ C10_Whole.err = ""
           /\ out_file.text = C10_Whole.content )
        => /\ out_file' = out_file
           /\ gen_pc' # "returned"
      /\ (gen_pc' = "kept") => (out_file' = out_file /\ out_file.text = content)
      /\ (gen_pc' = "returned" /\ gen_in.output_file)
        => /\ out_file # [exists |-> TRUE, text |-> content]
           /\ out_file' = [exists |-> TRUE, text |-> content] ]_vars

\* An optimized run on the input an earlier run has written the file for: the
\* call has returned from the comparison and the file is as it was.
C11_Witness ==
  /\ gen_pc = "kept"
  /\ gen_in.optimize_generation = 1
  /\ Len(gen_in.input.native_decls) = 1
  /\ out_file = [exists |-> TRUE, text |-> content]
  /\ content # ""

(***************************************************************************)
(* InlHeaderFileGenerator: the sections of the header.                     *)
(***************************************************************************)
\* The native declarations of the files the generator is constructed from.
HeaderDecls ==
  { [native_class_name |-> NoGroup, java_class_name |-> c, qualifiers |-> q,
     return_type |-> "void", name |-> n, first |-> f, rest |-> ""] :
      c \in {NoGroup, Group("Inner")},
      q \in {"private static"},
      n \in {"nativeInit", "nativeFoo", "nativeFoonative"},
      f \in {NoFirst, [present |-> TRUE, mods |-> "", type |-> "long", name |-> "nativeFoo"]} }

HeaderNativeContents ==
  {<<>>} \cup { <<d>> : d \in HeaderDecls }
  \cup { <<d, e>> : d \in HeaderDecls, e \in { x \in HeaderDecls : ~x.first.present } }

\* The called-by-native declarations of those files.
HeaderMatches ==
  { Match(a, "public ", "f", IF a = "Foo" THEN "String s" ELSE "int i") :
      a \in {"", "Foo", "Inner", "Other"} }

HeaderMatchLists ==
  {<<>>} \cup { <<m>> : m \in HeaderMatches } \cup { <<m, n>> : m, n \in HeaderMatches }

\* JNIFromJavaSource.__init__ has extracted the declarations of NativeFile and
\* constructed the InlHeaderFileGenerator; --native_exports_optional is given
\* or not.
InitHeader ==
  /\ _imports = ImportsOf(NativeFile.imports)
  /\ _fully_qualified_class = FullyQualifiedClassOf(NativeFile.fqc)
  /\ _package = PackageOf(NativeFile.fqc)
  /\ _inner_classes = InnerClassesOf(FullyQualifiedClassOf(NativeFile.fqc), NativeFile.classes)
  /\ _implicit_imports = <<>>
  /\ pc = "resolve"
  /\ runs = 1
  /\ cur = NativeFile
  /\ last = NoCall
  /\ err = ""
  /\ ptr_type = "long"
  /\ nat_in \in HeaderNativeContents
  /\ natives = [i \in 1..Len(nat_in) |-> NativeOfMatch(nat_in[i], ptr_type)]
  /\ stubs = <<>>
  /\ nat_pc = "extracted"
  /\ \E ms \in HeaderMatchLists :
        called_by_natives = CalledByNativesOf(ms, Clean, Ctx).list
  /\ cbn_pc = "returned"
  /\ gen_pc = "try"
  /\ \E r \in BOOLEAN :
        gen_in = [NoArgs EXCEPT !.input = Input(".java", NativeFile, nat_in, <<>>, Clean, NoJavaP),
                                !.native_exports_optional = r]
  /\ content = ""
  /\ out_dir = FALSE
  /\ out_file = NoOutput
  /\ stdout = <<>>
  /\ exit_status = ""
  /\ values = NoValues
  /\ hdr_pc = "generator"
  /\ reg = NotRegistering
  /\ cache = NoCache

\* The effect of GetContent that ended as r; GetMethodStubsString has called
\* GetNativeStub for each native.
Generated(r) ==
  /\ _implicit_imports' = r.ctx.implicit
  /\ values' = r.values
  /\ content' = r.content
  /\ stubs' = [i \in 1..Len(natives) |-> GetNativeStub(natives[i], cur.fqc)]
  /\ hdr_pc' = IF r.err = "" THEN "content" ELSE r.err

\* self.content = inl_header_file_generator.GetContent().
HeaderContent ==
  /\ hdr_pc = "generator"
  /\ Generated(GetContent(SourceNamespace(gen_in.input.jni_namespaces,
                                          Options(ptr_type, gen_in.namespace,
                                                  gen_in.native_exports_optional)),
                          cur.fqc, natives, called_by_natives, <<>>,
                          Options(ptr_type, gen_in.namespace, gen_in.native_exports_optional),
                          Ctx))
  /\ UNCHANGED <<_imports, _fully_qualified_class, _package, _inner_classes, runVars,
                 cbnVars, ptr_type, nat_in, natives, nat_pc, gen_pc, gen_in, out_dir,
                 out_file, stdout, exit_status, reg, cache>>

NextHeader == HeaderContent

SpecHeader == InitHeader /\ [][NextHeader]_vars

\* The number of the lines that are the given line.
CountOf(lines, line) == Cardinality({i \in 1..Len(lines) : lines[i] = line})

\* The classes the declarations refer to, by name: the file's own class, the
\* classes named by a called-by-native annotation and the classes named by the
\* call-class override of a native declaration.
C12_Referenced ==
  {ClassNameOf(cur.fqc)}
  \cup ({called_by_natives[i].java_class_name : i \in 1..Len(called_by_natives)} \ {""})
  \cup ({NativeClassNames(natives)[i] : i \in 1..Len(natives)} \ {""})

\* The classes of C12_Referenced that the generated code uses through a class
\* handle: those named by a native declaration count only when the
\* registration tables are emitted.
C12_Used ==
  {ClassNameOf(cur.fqc)}
  \cup ({called_by_natives[i].java_class_name : i \in 1..Len(called_by_natives)} \ {""})
  \cup (IF gen_in.native_exports_optional
        THEN {NativeClassNames(natives)[i] : i \in 1..Len(natives)} \ {""}
        ELSE {})

\* The number of the lines that start with the given text.
C12_StartCount(lines, start) ==
  Cardinality({i \in 1..Len(lines) : StartsWith(lines[i], start)})

\* Each of the classes has exactly one class-path constant and exactly one
\* class handle among the lines.
C12_OnePair(classes, lines) ==
  \A c \in classes :
    /\ C12_StartCount(lines, "const char k" \o c \o "ClassPath[] = \"") = 1
    /\ CountOf(lines, "base::subtle::AtomicWord g_" \o c \o "_clazz __attribute__((unused)) = 0;") = 1
    /\ CountOf(lines, "#define " \o c \o "_clazz(env) base::android::LazyGetClass(env, k"
                        \o c \o "ClassPath, &g_" \o c \o "_clazz)") = 1

\* The lines are those of C12_OnePair for the classes and nothing else.
C12_Only(classes, lines) == Len(lines) = 4 * Cardinality(classes)

\* C12 as stated: the class-path definitions of the generated header hold
\* exactly one class-path constant and one cached class handle for every class
\* the declarations refer to (the own class, the classes of the called-by-native
\* annotations and of the call-class overrides of the natives), with
\* --native_exports_optional and without it.
C12_OnePerReferenced ==
  hdr_pc = "content" => C12_OnePair(C12_Referenced, Split(values.CLASS_PATH_DEFINITIONS, "\n"))

\* C12, amended: exactly one class-path constant and one cached class handle
\* for the own class and for every class named by a called-by-native
\* annotation, however many declarations name it; for a class named only by
\* call-class overrides of natives exactly one pair when the registration
\* tables are emitted (--native_exports_optional) and none otherwise.
C12_OnePerUsed ==
  hdr_pc = "content" =>
    /\ C12_OnePair(C12_Used, Split(values.CLASS_PATH_DEFINITIONS, "\n"))
    /\ C12_Only(C12_Used, Split(values.CLASS_PATH_DEFINITIONS, "\n"))

C12_Witness ==
  /\ hdr_pc = "content"
  /\ ~gen_in.native_exports_optional
  /\ Len(called_by_natives) = 2
  /\ called_by_natives[1].java_class_name = "Inner"
  /\ called_by_natives[2].java_class_name = "Inner"
  /\ Len(natives) = 2
  /\ NativeClassNames(natives) = <<"Inner", "">>
  /\ C12_OnePair({"Foo", "Inner"}, Split(values.CLASS_PATH_DEFINITIONS, "\n"))

\* The lines of a native's stub text that start a forward declaration of the
\* function the stub calls, and those that start a call stub.
C13_Forwards(native, lines) ==
  {i \in 1..Len(lines) :
     StartsWith(lines[i], "static ") /\ Contains(lines[i], " " \o native.name \o "(JNIEnv* env, ")}

C13_CallStubs(stub, lines) ==
  {i \in 1..Len(lines) :
     StartsWith(lines[i], stub.RETURN \o " " \o stub.STUB_NAME \o "(JNIEnv* env,")}

\* The method stubs start with the stub texts of the natives, one text for
\* each native and in their order.
C13_OneTextEach ==
  /\ Len(stubs) = Len(natives)
  /\ StartsWith(values.METHOD_STUBS, Join([i \in 1..Len(stubs) |-> stubs[i].text], "\n"))

\* C13 as stated: for every native declaration, of type method or function,
\* the method stubs hold exactly one forward declaration and exactly one call
\* stub.
C13_ForwardAndStubEach ==
  hdr_pc = "content" =>
    /\ C13_OneTextEach
    /\ \A i \in 1..Len(natives) :
         /\ Cardinality(C13_Forwards(natives[i], Split(stubs[i].text, "\n"))) = 1
         /\ Cardinality(C13_CallStubs(stubs[i], Split(stubs[i].text, "\n"))) = 1

\* C13, amended: every native declaration gets exactly one call stub; a
\* native of type function gets exactly one forward declaration of the
\* function its stub calls, a native of type method gets none (its stub calls
\* a member function of the peer type).
C13_StubEachForwardPerFunction ==
  hdr_pc = "content" =>
    /\ C13_OneTextEach
    /\ \A i \in 1..Len(natives) :
         /\ Cardinality(C13_Forwards(natives[i], Split(stubs[i].text, "\n")))
              = (IF natives[i].type = "function" THEN 1 ELSE 0)
         /\ Cardinality(C13_CallStubs(stubs[i], Split(stubs[i].text, "\n"))) = 1

C13_Witness ==
  /\ hdr_pc = "content"
  /\ Len(natives) = 2
  /\ natives[1].type = "method"
  /\ natives[2].type = "function"
  /\ C13_Forwards(natives[1], Split(stubs[1].text, "\n")) = {}
  /\ C13_Forwards(natives[2], Split(stubs[2].text, "\n")) = {2}
  /\ Len(called_by_natives) = 1

\* The entry-point name the JVM looks up for a native declaration as written:
\* Java_, the escaped fully qualified class, the escaped call class after
\* _00024 when one is given, and the declared name of the method.
C14_EntryPoint(decl) ==
  "Java_" \o Replace(Replace(cur.fqc, "_", "_1"), "/", "_")
  \o (IF Truthy(decl.java_class_name)
      THEN "_00024" \o Replace(decl.java_class_name.value, "_", "_1") ELSE "")
  \o "_" \o decl.name

\* C14: the name GetStubName gives the stub of a native declaration is built
\* from the escaped fully qualified class, the call-class override when given
\* and the declared name of the method, and two declarations that differ in
\* the call class or in the declared name never get the same stub name.
C14_StubNameUnique ==
  hdr_pc = "content" =>
    /\ \A i \in 1..Len(nat_in) : stubs[i].STUB_NAME = C14_EntryPoint(nat_in[i])
    /\ \A i, j \in 1..Len(nat_in) :
         (nat_in[i].name # nat_in[j].name
            \/ nat_in[i].java_class_name # nat_in[j].java_class_name)
           => stubs[i].STUB_NAME # stubs[j].STUB_NAME

\* C15: the registration tables and the registration routine are emitted
\* together or not at all. Without --native_exports_optional both are empty;
\* with it both are present whenever there is a native declaration; and the
\* assertion of GetContent, tables empty iff routine empty, never fails.
C15_TablesAndRoutineTogether ==
  /\ hdr_pc # "AssertionError"
  /\ hdr_pc = "content" =>
       /\ (values.JNI_NATIVE_METHODS = "") <=> (values.REGISTER_NATIVES = "")
       /\ ~gen_in.native_exports_optional =>
            /\ values.JNI_NATIVE_METHODS = ""
            /\ values.REGISTER_NATIVES = ""
       /\ (gen_in.native_exports_optional /\ Len(natives) > 0) =>
            /\ Contains(values.JNI_NATIVE_METHODS, "static const JNINativeMethod kMethods")
            /\ Contains(values.REGISTER_NATIVES, "static bool RegisterNativesImpl(JNIEnv* env) {")
            /\ Contains(values.REGISTER_NATIVES, "env->RegisterNatives(")

C15_Witness ==
  /\ hdr_pc = "content"
  /\ gen_in.native_exports_optional
  /\ Len(natives) = 2
  /\ NativeClassNames(natives) = <<"Inner", "">>
  /\ values.JNI_NATIVE_METHODS # ""
  /\ values.REGISTER_NATIVES # ""

(***************************************************************************)
(* The emitted RegisterNativesImpl, run statement by statement.            *)
(***************************************************************************)
\* The statements of the templates of GetRegisterNativesString and
\* GetRegisterNativesImplString, by the line they start on.
IsEarlyExit(line) ==
  line = "  if (base::android::IsManualJniRegistrationDisabled()) return true;"

IsRegisterNatives(line) == StartsWith(line, "  if (env->RegisterNatives(")

IsHandleRegistrationError(line) ==
  StartsWith(line, "    jni_generator::HandleRegistrationError(")

IsReturn(line) == Strip(line) \in {"return true;", "return false;"}

IsStatement(line) ==
  IsEarlyExit(line) \/ IsRegisterNatives(line) \/ IsHandleRegistrationError(line)
    \/ IsReturn(line)

\* The first statement on line i or after it.
NextStatement(lines, i) ==
  CHOOSE j \in i..Len(lines) :
    IsStatement(lines[j]) /\ \A k \in i..(j - 1) : ~IsStatement(lines[k])

\* The first statement after the block of the if statement on line i.
AfterBlock(lines, i) ==
  NextStatement(lines,
                1 + CHOOSE j \in (i + 1)..Len(lines) :
                      lines[j] = "  }" /\ \A k \in (i + 1)..(j - 1) : lines[k] # "  }")

\* The class of the ${JAVA_CLASS}_clazz(env) a line passes.
ClazzOf(line) ==
  SubSeq(line,
         CHOOSE i \in 1..Index(line, "_clazz(env)") :
           /\ IsIdentifier(SubSeq(line, i, Index(line, "_clazz(env)") - 1))
           /\ (i = 1 \/ ~IsIdentifier(Ch(line, i - 1))),
         Index(line, "_clazz(env)") - 1)

\* The generated code calls RegisterNativesImpl(env).
RegisterNativesImpl ==
  /\ hdr_pc = "content"
  /\ values.REGISTER_NATIVES # ""
  /\ reg = NotRegistering
  /\ reg' = [NotRegistering EXCEPT
               !.lines = Split(values.REGISTER_NATIVES, "\n"),
               !.pc = NextStatement(Split(values.REGISTER_NATIVES, "\n"), 1)]
  /\ UNCHANGED <<jniVars, runVars, cbnVars, natVars, genVars, values, hdr_pc, cache>>

\* if (base::android::IsManualJniRegistrationDisabled()) return true;
IsManualJniRegistrationDisabled(disabled) ==
  /\ reg.pc > 0
  /\ IsEarlyExit(reg.lines[reg.pc])
  /\ reg' = IF disabled
            THEN [reg EXCEPT !.disabled = "yes", !.result = "true", !.pc = 0]
            ELSE [reg EXCEPT !.disabled = "no", !.pc = NextStatement(reg.lines, reg.pc + 1)]
  /\ UNCHANGED <<jniVars, runVars, cbnVars, natVars, genVars, values, hdr_pc, cache>>

\* if (env->RegisterNatives(...) < 0) { : the call fails or not.
RegisterNatives(failed) ==
  /\ reg.pc > 0
  /\ IsRegisterNatives(reg.lines[reg.pc])
  /\ reg' = [reg EXCEPT
               !.calls = Append(@, [clazz |-> ClazzOf(reg.lines[reg.pc]), failed |-> failed]),
               !.pc = IF failed THEN NextStatement(reg.lines, reg.pc + 1)
                      ELSE AfterBlock(reg.lines, reg.pc)]
  /\ UNCHANGED <<jniVars, runVars, cbnVars, natVars, genVars, values, hdr_pc, cache>>

\* jni_generator::HandleRegistrationError(env, ..._clazz(env), __FILE__);
HandleRegistrationError ==
  /\ reg.pc > 0
  /\ IsHandleRegistrationError(reg.lines[reg.pc])
  /\ reg' = [reg EXCEPT
               !.reported = Append(@, ClazzOf(Strip(reg.lines[reg.pc + 1]))),
               !.pc = NextStatement(reg.lines, reg.pc + 2)]
  /\ UNCHANGED <<jniVars, runVars, cbnVars, natVars, genVars, values, hdr_pc, cache>>

\* return false; and return true;
Return ==
  /\ reg.pc > 0
  /\ IsReturn(reg.lines[reg.pc])
  /\ reg' = [reg EXCEPT
               !.result = SubSeq(Strip(reg.lines[reg.pc]), 8, Len(Strip(reg.lines[reg.pc])) - 1),
               !.pc = 0]
  /\ UNCHANGED <<jniVars, runVars, cbnVars, natVars, genVars, values, hdr_pc, cache>>

\* The generator of a file without called-by-natives.
InitRegister ==
  /\ InitHeader
  /\ called_by_natives = <<>>

NextRegister ==
  \/ HeaderContent
  \/ RegisterNativesImpl
  \/ \E disabled \in BOOLEAN : IsManualJniRegistrationDisabled(disabled)
  \/ \E failed \in BOOLEAN : RegisterNatives(failed)
  \/ HandleRegistrationError
  \/ Return

SpecRegister == InitRegister /\ [][NextRegister]_vars

\* The classes that have a registration table, in the order of the tables.
C16_TableClasses ==
  LET lines == SelectSeq(Split(values.JNI_NATIVE_METHODS, "\n"),
                         LAMBDA l : StartsWith(l, "static const JNINativeMethod kMethods"))
  IN  [i \in 1..Len(lines) |->
         SubSeq(lines[i], Len("static const JNINativeMethod kMethods") + 1,
                Index(lines[i], "[]") - 1)]

C16_Classes(calls) == [i \in 1..Len(calls) |-> calls[i].clazz]

\* The routine makes its registration calls class by class in the order of
\* the tables, fails fast and reports the class whose call failed.
C16_FailFast(tables) ==
  /\ Len(reg.calls) <= Len(tables)
  /\ C16_Classes(reg.calls) = SubSeq(tables, 1, Len(reg.calls))
  /\ \A i \in 1..(Len(reg.calls) - 1) : ~reg.calls[i].failed
  /\ reg.reported # <<>> =>
       /\ reg.calls[Len(reg.calls)].failed
       /\ reg.reported = <<reg.calls[Len(reg.calls)].clazz>>
  /\ reg.result = "false" =>
       /\ reg.calls # <<>>
       /\ reg.calls[Len(reg.calls)].failed
       /\ reg.reported = <<reg.calls[Len(reg.calls)].clazz>>
  /\ reg.result = "true" => \A i \in 1..Len(reg.calls) : ~reg.calls[i].failed

\* C16 as stated: the emitted routine makes one registration call for every
\* class that has a table, class by class; at the first call that fails it
\* reports that class, returns false and makes no further call; it returns
\* true only when no call failed, and then every table was installed.
C16_InstallsEveryTable ==
  /\ C16_FailFast(C16_TableClasses)
  /\ reg.result = "true" => C16_Classes(reg.calls) = C16_TableClasses

\* C16, amended: as stated, but the routine first asks whether manual JNI
\* registration is disabled, and then returns true at once without any
\* registration call; otherwise a return of true means that every table was
\* installed.
C16_InstallsUnlessDisabled ==
  /\ C16_FailFast(C16_TableClasses)
  /\ (reg.result = "true" /\ reg.disabled = "no") => C16_Classes(reg.calls) = C16_TableClasses
  /\ reg.disabled = "yes" => (reg.calls = <<>> /\ reg.result = "true")

C16_Witness ==
  /\ reg.result = "false"
  /\ Len(C16_TableClasses) = 2
  /\ Len(reg.calls) = 1
  /\ reg.reported = <<C16_TableClasses[1]>>

\* Whether the line below a method or constructor line of a listing carries
\* the signature.
C17_HasSignatureLine(next_line) ==
  Contains(next_line, "Signature: ") \/ Contains(next_line, "descriptor: ")

\* The signature the type resolver computes for a member.
C17_Computed(params, return_type) ==
  Signature(Parse(Replace(params, ".", "/")), Replace(return_type, ".", "/"), TRUE, Ctx).text

\* The signature a member of a listing is to be looked up with: the text of
\* the signature line in quotes when there is one, else the computed one.
C17_Expected(params, return_type, next_line) ==
  IF C17_HasSignatureLine(next_line)
  THEN "\"" \o SubSeq(next_line,
                      Index(next_line, ": ") + 2, Len(next_line)) \o "\""
  ELSE C17_Computed(params, return_type)

\* C17: a called-by-native member is looked up with the decompiled signature
\* line when the declaration has one and otherwise with the signature the
\* type resolver computes; a listing whose method or constructor line has no
\* 'Signature:' or 'descriptor:' line below it still yields its declarations,
\* that member with the computed signature.
C17_SignatureSource ==
  /\ (gen_pc \notin {"idle", "try"} /\ gen_in.input.ext = ".class"
        /\ gen_in.input.javap.class_name # "") =>
       /\ exit_status # "ValueError"
       /\ \A i \in 1..Len(gen_in.input.javap.methods) :
            Contains(content,
                     "      " \o C17_Expected(gen_in.input.javap.methods[i].params,
                                              gen_in.input.javap.methods[i].return_type,
                                              gen_in.input.javap.methods[i].next_line)
                     \o ",\n")
       /\ \A i \in 1..Len(gen_in.input.javap.constructors) :
            Contains(content,
                     "      " \o C17_Expected(gen_in.input.javap.constructors[i].params, "void",
                                              gen_in.input.javap.constructors[i].next_line)
                     \o ",\n")
  /\ (gen_pc = "built" /\ gen_in.input.ext = ".java") =>
       \A i \in 1..Len(gen_in.input.matches) :
         Contains(content,
                  "      " \o C17_Computed(gen_in.input.matches[i].params,
                                           gen_in.input.matches[i].return_type)
                  \o ",\n")

\* The places of the content where the text t starts.
C18_Hits(t) == {i \in 1..(Len(content) - Len(t) + 1) : SubSeq(content, i, i + Len(t) - 1) = t}

\* The places of each of the texts, in the order of the texts.
C18_Places(marks) == [k \in 1..Len(marks) |-> C18_Hits(marks[k])]

\* Every place of an earlier text lies before every place of a later text.
C18_Ordered(places) ==
  \A a, b \in 1..Len(places) :
    a < b => \A i \in places[a], j \in places[b] : i < j

\* The texts the templates start each section with.
C18_Guard == "#ifndef "
C18_Forward == "// Step 1: forward declarations."
C18_Enum == "enum Java_"
C18_Pair == "ClassPath[] = "
C18_NativeStub == "extern \"C\" __attribute__((visibility(\"default\")))"
C18_Table == "static const JNINativeMethod kMethods"
C18_Routine == "static bool RegisterNativesImpl(JNIEnv* env) {"
C18_LazyStub == "static base::subtle::AtomicWord g_"

\* C18 as stated: the generated text has its sections in the order header
\* guard, forward declarations, enum of constants, cached handle and class-path
\* constant pairs, native call stubs, registration table, registration
\* routine, lazy called-by-native stubs.
C18_RegistrationBeforeLazyStubs ==
  gen_pc = "built" =>
    C18_Ordered(C18_Places(<<C18_Guard, C18_Forward, C18_Enum, C18_Pair, C18_NativeStub,
                             C18_Table, C18_Routine, C18_LazyStub>>))

\* C18: the generated text has its sections in the order header guard, the
\* class-path constant and cached handle pairs under the heading of the
\* forward declarations, enum of constants, native call stubs, lazy
\* called-by-native stubs, registration table, registration routine; a
\* section that is left out leaves the order of the others as it is.
C18_SectionOrder ==
  gen_pc = "built" =>
    C18_Ordered(C18_Places(<<C18_Guard, C18_Forward, C18_Pair, C18_Enum, C18_NativeStub,
                             C18_LazyStub, C18_Table, C18_Routine>>))

\* A header with a native call stub, a lazy stub, a table and the routine.
C18_Witness ==
  /\ gen_pc = "built"
  /\ C18_Hits(C18_Guard) # {}
  /\ C18_Hits(C18_Pair) # {}
  /\ C18_Hits(C18_NativeStub) # {}
  /\ C18_Hits(C18_LazyStub) # {}
  /\ C18_Hits(C18_Table) # {}
  /\ C18_Hits(C18_Routine) # {}

\* The header opens the namespace, or none when it is "", right after the
\* class-path definitions.
C19_Opens(namespace) ==
  Contains(content, "}  // namespace\n\n" \o GetOpenNamespaceString(namespace) \o "\n\n")

\* The class whose header is generated, and the namespace derived from its
\* name.
C19_Class ==
  IF gen_in.input.ext = ".class"
  THEN Before(Replace(gen_in.input.javap.class_name, ".", "/"), "<")
  ELSE gen_in.input.file.fqc

C19_Derived == "JNI_" \o ClassNameOf(C19_Class)

\* The namespace of the first namespace directive of the input, "" without one.
C19_Directive ==
  IF gen_in.input.ext = ".java" /\ Len(gen_in.input.jni_namespaces) > 0
  THEN gen_in.input.jni_namespaces[1]
  ELSE ""

\* C19 as stated: the output namespace is the one of the namespace directive
\* when the input has one, and otherwise is derived from the class name, in
\* source mode as well as in decompiled mode.
C19_DirectiveElseDerived ==
  gen_pc = "built" =>
    C19_Opens(IF C19_Directive # "" THEN C19_Directive ELSE C19_Derived)

\* C19: in source mode the output namespace is the one of the first namespace
\* directive when the input has one, otherwise the one of the --namespace
\* option, and without either there is no namespace; in decompiled mode it is
\* the one of the --namespace option when given and otherwise JNI_<class name>.
C19_NamespaceChoice ==
  gen_pc = "built" =>
    C19_Opens(IF gen_in.input.ext = ".java"
              THEN IF C19_Directive # "" THEN C19_Directive ELSE gen_in.namespace
              ELSE IF gen_in.namespace # "" THEN gen_in.namespace ELSE C19_Derived)

\* A header of a source without a directive, generated with the option.
C19_Witness ==
  /\ gen_pc = "built"
  /\ gen_in.input.ext = ".java"
  /\ gen_in.input.jni_namespaces = <<>>
  /\ gen_in.namespace = "base::android"
  /\ Contains(content, "\nnamespace base {\nnamespace android {\n")

\* The names the directives of the file list, in order, each without the
\* blanks around it.
C20_Names == [i \in 1..Len(AdditionalNames(cur.additional)) |-> Strip(AdditionalNames(cur.additional)[i])]

\* The class a listed name stands for, and the import it is added as.
C20_Raw(class_name) == SubSeq(class_name, 1, Len(class_name) - Len(".class"))

C20_Import(class_name) == "L" \o _package \o "/" \o C20_Raw(class_name)

\* A listed name is rejected when it is qualified or is among the imports.
C20_Rejected(imports, class_name) ==
  \/ Contains(C20_Raw(class_name), ".")
  \/ \E i \in 1..Len(imports) : imports[i] = C20_Import(class_name)

\* What the directives have done to the imports: the listed names up to the
\* k-th were added in order, none of them rejected, on top of the imports the
\* import lines gave; and either all names were added and nothing was raised,
\* or the next name is rejected, an error is raised for it and it has added
\* nothing.
C20_Processed(before, names, after, k, raised) ==
  /\ k \in 0..Len(names)
  /\ SubSeq(after, 1, Len(before)) = before
  /\ \A i \in 1..k :
       /\ ~C20_Rejected(SubSeq(after, 1, Len(before) + i - 1), names[i])
       /\ after[Len(before) + i] = C20_Import(names[i])
  /\ IF k = Len(names) THEN raised = ""
     ELSE /\ C20_Rejected(after, names[k + 1])
          /\ raised = (IF Contains(C20_Raw(names[k + 1]), ".")
                       THEN "SyntaxError: qualified additional import"
                       ELSE "SyntaxError: already imported")

C21_Unmatched ==
  \E i \in 1..Len(gen_in.input.unmatched_lines) :
    Contains(gen_in.input.unmatched_lines[i], "@CalledByNative")

StubReturnTypes ==
  { "void", "boolean", "byte", "char", "short", "int", "long", "float", "double",
    "Object", "String", "int[]", "Foo", "Throwable", "Class" }

\* What RE_CALLED_BY_NATIVE matches in the sources: one declaration each.
StubMatches ==
  { [Unchecked |-> u, annotation |-> a, prefix |-> q, return_type |-> t, name |-> "f",
     params |-> ps] :
      u \in {"", "Unchecked"}, a \in {"", "Inner"}, q \in {"public ", "public static "},
      t \in StubReturnTypes, ps \in {"", "int i"} }

\* The class of the listings, and their method and constructor lines.
StubJavaPFile == File("java/util/HashSet", <<>>, <<>>, <<>>)

StubJavaPLines ==
  { MethodLine(JavaPMethodLine(q, t, "add", "int", "    descriptor: (I)Z")) :
      q \in {"  public ", "  public static "}, t \in {"boolean", "void", "java.lang.String"} }
  \cup { ConstructorLine(StubJavaPFile.fqc, [params |-> ps, next_line |-> "    descriptor: (I)V"]) :
           ps \in {"", "int"} }

\* The declarations of a file: one of a source, or one of a listing.
StubDeclarations(file) ==
  IF file = StubJavaPFile
  THEN { MangleCalledByNatives(JavaPMethods(<<l>>).list,
                               [Ctx0 EXCEPT !.fqc = FullyQualifiedClassOf(file.fqc),
                                            !.package = PackageOf(file.fqc)]).list :
           l \in StubJavaPLines }
  ELSE { CalledByNativesOf(<<m>>, Clean,
                           [Ctx0 EXCEPT !.fqc = FullyQualifiedClassOf(file.fqc),
                                        !.package = PackageOf(file.fqc),
                                        !.inner = InnerClassesOf(FullyQualifiedClassOf(file.fqc),
                                                                 file.classes)]).list :
           m \in StubMatches }

\* The InlHeaderFileGenerator of a source or of a listing with one
\* called-by-native declaration comes to GetLazyCalledByNativeMethodStub.
InitStub ==
  /\ cur \in {NativeFile, StubJavaPFile}
  /\ _imports = <<>>
  /\ _fully_qualified_class = FullyQualifiedClassOf(cur.fqc)
  /\ _package = PackageOf(cur.fqc)
  /\ _inner_classes = InnerClassesOf(FullyQualifiedClassOf(cur.fqc), cur.classes)
  /\ _implicit_imports = <<>>
  /\ pc = "resolve"
  /\ runs = 1
  /\ last = NoCall
  /\ err = ""
  /\ called_by_natives \in StubDeclarations(cur)
  /\ cbn_pc = "returned"
  /\ NatIdle
  /\ GenIdle
  /\ values = NoValues
  /\ hdr_pc = "generator"
  /\ reg = NotRegistering
  /\ cache = NoCache

\* The return of GetLazyCalledByNativeMethodStub: r is the stub or what
\* GetMethodIDImpl raised.
LazyStubDone(r) ==
  /\ _implicit_imports' = r.implicit
  /\ content' = IF r.err = "" THEN r.text ELSE ""
  /\ hdr_pc' = IF r.err = "" THEN "stub" ELSE r.err

\* InlHeaderFileGenerator.GetLazyCalledByNativeMethodStub(called_by_native).
LazyStub ==
  /\ hdr_pc = "generator"
  /\ Len(called_by_natives) = 1
  /\ LazyStubDone(GetLazyCalledByNativeMethodStub(called_by_natives[1], ClassNameOf(cur.fqc), Ctx))
  /\ UNCHANGED <<_imports, _fully_qualified_class, _package, _inner_classes, runVars,
                 cbnVars, natVars, gen_pc, gen_in, out_dir, out_file, stdout, exit_status,
                 values, reg, cache>>

NextStub == LazyStub

SpecStub == InitStub /\ [][NextStub]_vars

\* The declaration whose stub was emitted, and the class of its handle.
C23_Declaration == called_by_natives[1]

C23_Class ==
  IF C23_Declaration.java_class_name # "" THEN C23_Declaration.java_class_name
  ELSE ClassNameOf(cur.fqc)

\* What the stub validates: the class handle for a static method and for a
\* constructor, the target object otherwise.
C23_Target ==
  IF C23_Declaration.static \/ C23_Declaration.is_constructor
  THEN C23_Class \o "_clazz(env)"
  ELSE "obj.obj()"

\* The texts the steps of a stub start with.
C23_Validate == "  CHECK_CLAZZ(env, " \o C23_Target \o ",\n      " \o C23_Class \o "_clazz(env)"
C23_Lookup == "base::android::MethodID::LazyGet<"
C23_Call == "env->"
C23_Check == "jni_generator::CheckException(env);"
C23_Return == "  return "

\* The place of a text in the stub, 0 when the stub does not hold it.
C23_Place(t) == IF Contains(content, t) THEN Index(content, t) ELSE 0

\* The second step comes after the first when the stub holds both.
C23_Then(a, b) == (a > 0 /\ b > 0) => a < b

\* C23: every called-by-native stub validates its target against the class
\* handle (the class for static methods and constructors, the target object
\* otherwise), then looks up the cached member identifier, then makes the
\* call, then checks for a pending exception, then returns the result; the
\* exception check is there exactly when the declaration is not marked
\* unchecked, after the call and before the return.
C23_StubSteps ==
  hdr_pc = "stub" =>
    /\ C23_Place(C23_Validate) > 0
    /\ C23_Place(C23_Lookup) > C23_Place(C23_Validate)
    /\ C23_Place(C23_Call) > C23_Place(C23_Lookup)
    /\ (C23_Place(C23_Check) > 0) = ~C23_Declaration.unchecked
    /\ C23_Then(C23_Place(C23_Call), C23_Place(C23_Check))
    /\ (C23_Place(C23_Return) > 0) = (C23_Declaration.return_type # "void")
    /\ C23_Then(C23_Place(C23_Call), C23_Place(C23_Return))
    /\ C23_Then(C23_Place(C23_Check), C23_Place(C23_Return))

\* The stub of a checked instance method that returns a value.
C23_Witness ==
  /\ hdr_pc = "stub"
  /\ ~C23_Declaration.unchecked
  /\ ~C23_Declaration.static
  /\ C23_Declaration.return_type = "int"
  /\ C23_Place(C23_Check) > 0
  /\ C23_Place(C23_Return) > C23_Place(C23_Check)

\* The name of a primitive type or of void with its first letter in upper
\* case, and Object for every other type.
C24_Primitives ==
  {"boolean", "byte", "char", "short", "int", "long", "float", "double", "void"}

C24_T(return_type) ==
  IF return_type \in C24_Primitives
  THEN ToUpper(Ch(return_type, 1)) \o SubSeq(return_type, 2, Len(return_type))
  ELSE "Object"

\* The invocation the claim selects for a declaration.
C24_Invocation(d) ==
  IF d.is_constructor THEN "NewObject"
  ELSE "Call" \o (IF d.static THEN "Static" ELSE "") \o C24_T(d.return_type) \o "Method"

\* C24: the stub of a constructor calls NewObject, looks the member up as
\* '<init>' and has the class itself as return type; the stub of any other
\* method calls Call<T>Method, or CallStatic<T>Method when it is static,
\* and looks the member up by its name, T being the capitalised return type
\* for the eight primitives and void and Object for every other return type.
C24_InvocationPath ==
  hdr_pc = "stub" =>
    /\ Contains(content, "env->" \o C24_Invocation(called_by_natives[1]) \o "(")
    /\ Contains(content,
                "_clazz(env),\n      \""
                \o (IF called_by_natives[1].is_constructor THEN "<init>"
                    ELSE called_by_natives[1].name)
                \o "\",\n")
    /\ called_by_natives[1].is_constructor => called_by_natives[1].return_type = cur.fqc

\* The stub of a static method that returns an array.
C24_Witness ==
  /\ hdr_pc = "stub"
  /\ called_by_natives[1].static
  /\ called_by_natives[1].return_type = "int[]"
  /\ Contains(content, "env->CallStaticObjectMethod(")

\* The class a called-by-native declaration belongs to: the class of its
\* annotation or, when it names none, the class of the file.
C25_Class(d) == IF d.java_class_name # "" THEN d.java_class_name ELSE ClassNameOf(cur.fqc)

\* The stub name and the member-identifier cache cell of a declaration.
C25_StubName(d) == "Java_" \o C25_Class(d) \o "_" \o d.method_id_var_name

C25_Cell(d) == "g_" \o C25_Class(d) \o "_" \o d.method_id_var_name

\* Two declarations that Java allows side by side: they differ in the class,
\* in the name or in the types of the parameters.
C25_Distinct(d, e) ==
  \/ C25_Class(d) # C25_Class(e)
  \/ d.name # e.name
  \/ [i \in 1..Len(d.params) |-> d.params[i].datatype]
       # [i \in 1..Len(e.params) |-> e.params[i].datatype]

\* C25: in one generated header no two called-by-native declarations share a
\* stub name Java_<class>_<identifier> or a cache cell g_<class>_<identifier>,
\* <class> being the class of the annotation or else the file's own class,
\* also when one declaration names the file's own class and another leaves
\* it out: every cell is defined once in the emitted text.
C25_StubNamesDistinct ==
  hdr_pc = "content" =>
    \A i, j \in 1..Len(called_by_natives) :
      (i # j /\ C25_Distinct(called_by_natives[i], called_by_natives[j])) =>
        /\ C25_StubName(called_by_natives[i]) # C25_StubName(called_by_natives[j])
        /\ C25_Cell(called_by_natives[i]) # C25_Cell(called_by_natives[j])
        /\ CountOf(Split(values.METHOD_STUBS, "\n"),
                   "static base::subtle::AtomicWord " \o C25_Cell(called_by_natives[i])
                   \o " = 0;") = 1

\* The nested classes and interfaces the file declares: the names its class
\* and interface declarations give, but for the class of the file itself.
C26_Nested == {cur.classes[i] : i \in 2..Len(cur.classes)}

\* The descriptor of a nested class of the file.
C26_Descriptor(name) == "L" \o cur.fqc \o "$" \o name

\* C26: once the first file of a process is extracted, every nested class or
\* interface it declares, whatever its name, is among the inner classes, and
\* a reference to it by its simple name, with or without generic arguments
\* and array brackets, resolves to L<package>/<Outer>$<Inner>; behind the
\* array prefix.
C26_NestedResolved ==
  (runs = 1 /\ pc \in {"resolve", "done"}) =>
    \A n \in C26_Nested :
      /\ \E i \in 1..Len(_inner_classes) : _inner_classes[i] = C26_Descriptor(n)
      /\ (last.param # "" /\ StripGeneric(ArrayBase(last.param)) = n) =>
           /\ last.res.ok
           /\ last.res.val = ArrayPrefix(last.param) \o C26_Descriptor(n) \o ";"

(***************************************************************************)
(* The emitted caches, entered by several native threads.                  *)
(***************************************************************************)
\* The native threads that call into the stubs.
Threads == {1, 2}

\* The value of a cell that holds no handle, and the handle a thread has
\* made for a class or a member.
Unset == [of |-> "", by |-> 0]

Handle(target, thread) == [of |-> target, by |-> thread]

\* The lines that define a cell: 'base::subtle::AtomicWord g_..._clazz
\* __attribute__((unused)) = 0;' of GetClassPathDefinitions and 'static
\* base::subtle::AtomicWord g_... = 0;' of GetLazyCalledByNativeMethodStub.
IsCellDefinition(line) == Contains(line, "base::subtle::AtomicWord g_")

CellName(line) ==
  Before(SubSeq(line, Index(line, "AtomicWord ") + Len("AtomicWord "), Len(line)), " ")

CellInitial(line) == SubSeq(line, Index(line, " = ") + Len(" = "), Len(line) - 1)

\* The cells the lines define, each with its initial value.
CellsOf(lines) ==
  [c \in {CellName(lines[i]) : i \in {j \in 1..Len(lines) : IsCellDefinition(lines[j])}} |->
     IF \E i \in 1..Len(lines) :
          IsCellDefinition(lines[i]) /\ CellName(lines[i]) = c /\ CellInitial(lines[i]) = "0"
     THEN Unset ELSE Handle("?", 0)]

\* The identifier that ends right before place p of the text.
IdentifierBefore(text, p) ==
  SubSeq(text,
         CHOOSE i \in 1..p :
           /\ IsIdentifier(SubSeq(text, i, p - 1))
           /\ (i = 1 \/ ~IsIdentifier(Ch(text, i - 1))),
         p - 1)

\* The text between place p and the next occurrence of the end text.
UpTo(text, p, end) == Before(SubSeq(text, p, Len(text)), end)

\* '#define ${JAVA_CLASS}_clazz(env) base::android::LazyGetClass(env,
\* k${JAVA_CLASS}ClassPath, &g_${JAVA_CLASS}_clazz)' of GetClassPathDefinitions:
\* the line that defines the macro of a class, and the access it expands to.
MacroLine(class, lines) ==
  lines[CHOOSE i \in 1..Len(lines) : StartsWith(lines[i], "#define " \o class \o "_clazz(env) ")]

MacroAccess(line) ==
  [cell |-> UpTo(line, Index(line, "&") + 1, ")"),
   target |-> UpTo(line, Index(line, "LazyGetClass(env, ") + Len("LazyGetClass(env, "), ",")]

\* The access the text of a stub makes at place p, if any: a use of a class
\* macro, or the cell passed to MethodID::LazyGet for the member of the stub.
IsClassAccess(text, p) ==
  /\ p + Len("_clazz(env)") - 1 <= Len(text)
  /\ SubSeq(text, p, p + Len("_clazz(env)") - 1) = "_clazz(env)"

IsMemberAccess(text, p) ==
  /\ p + Len("&g_") - 1 <= Len(text)
  /\ SubSeq(text, p, p + Len("&g_") - 1) = "&g_"

AccessAt(text, p, lines) ==
  IF IsClassAccess(text, p) THEN MacroAccess(MacroLine(IdentifierBefore(text, p), lines))
  ELSE [cell |-> UpTo(text, p + 1, ")"),
        target |-> IdentifierBefore(text, Index(text, "(JNIEnv* env"))]

\* The cache accesses of the stub of GetLazyCalledByNativeMethodStub, in the
\* order of its text: CHECK_CLAZZ, MethodID::LazyGet and its arguments, the
\* call.
AccessPlaces(text) ==
  SelectSeq([p \in 1..Len(text) |-> p],
            LAMBDA p : IsClassAccess(text, p) \/ IsMemberAccess(text, p))

AccessesAt(text, places, lines) ==
  [k \in 1..Len(places) |-> AccessAt(text, places[k], lines)]

AccessesOf(text, lines) == AccessesAt(text, AccessPlaces(text), lines)

\* A thread outside the stubs.
IdleThread == [pc |-> "idle", prog |-> <<>>, at |-> 0, found |-> Unset, seen |-> <<>>]

\* A generated header of a source with one or two called-by-native
\* declarations and no natives comes to be built.
InitCache ==
  /\ InitHeader
  /\ nat_in = <<>>
  /\ ~gen_in.native_exports_optional
  /\ Len(called_by_natives) \in {1, 2}
  /\ called_by_natives[1].java_class_name = ""
  /\ Len(called_by_natives) = 2 => called_by_natives[2].java_class_name = "Inner"

\* The emitted code is loaded: every cell has the value of its definition.
LoadLibrary ==
  /\ hdr_pc = "content"
  /\ cache = NoCache
  /\ cache' = [cells |-> CellsOf(Split(content, "\n")),
               programs |-> [i \in 1..Len(called_by_natives) |->
                              AccessesOf(GetLazyCalledByNativeMethodStub(
                                           called_by_natives[i], ClassNameOf(cur.fqc), Ctx).text,
                                         Split(content, "\n"))],
               threads |-> [t \in Threads |-> IdleThread]]
  /\ UNCHANGED <<jniVars, runVars, cbnVars, natVars, genVars, values, hdr_pc, reg>>

\* A thread has finished an access and goes to the next one of the stub.
Advanced(th) ==
  IF th.at = Len(th.prog) THEN [th EXCEPT !.pc = "done"]
  ELSE [th EXCEPT !.pc = "load", !.at = th.at + 1]

\* A native thread calls the stub of the i-th declaration.
EnterStub(t, i) ==
  /\ cache # NoCache
  /\ cache.threads[t].pc = "idle"
  /\ cache' = [cache EXCEPT !.threads[t] =
                 Advanced([IdleThread EXCEPT !.prog = cache.programs[i]])]
  /\ UNCHANGED <<jniVars, runVars, cbnVars, natVars, genVars, values, hdr_pc, reg>>

\* The lazy getter reads the cell: a handle is used, an unset cell is to be
\* initialised by this thread.
AcquireLoad(t) ==
  /\ cache # NoCache
  /\ cache.threads[t].pc = "load"
  /\ cache.threads[t].prog[cache.threads[t].at].cell \in DOMAIN cache.cells
  /\ cache' = [cache EXCEPT !.threads[t] =
                 IF cache.cells[@.prog[@.at].cell] = Unset THEN [@ EXCEPT !.pc = "find"]
                 ELSE Advanced([@ EXCEPT !.seen =
                                  Append(@, [cell |-> cache.threads[t].prog[cache.threads[t].at].cell,
                                             target |-> cache.threads[t].prog[cache.threads[t].at].target,
                                             value |-> cache.cells[cache.threads[t].prog[cache.threads[t].at].cell]])])]
  /\ UNCHANGED <<jniVars, runVars, cbnVars, natVars, genVars, values, hdr_pc, reg>>

\* The thread looks the class or the member up; the lookup may fail, and then
\* nothing is published.
Find(t, ok) ==
  /\ cache # NoCache
  /\ cache.threads[t].pc = "find"
  /\ cache' = [cache EXCEPT !.threads[t] =
                 IF ok THEN [@ EXCEPT !.pc = "publish", !.found = Handle(cache.threads[t].prog[cache.threads[t].at].target, t)]
                 ELSE [@ EXCEPT !.pc = "failed"]]
  /\ UNCHANGED <<jniVars, runVars, cbnVars, natVars, genVars, values, hdr_pc, reg>>

\* The cell after a thread has tried to publish its handle: the handle when
\* the cell was unset, and otherwise what the cell holds already.
Published(cell, found) == IF cell = Unset THEN found ELSE cell

\* The thread publishes its handle with one compare-and-swap and goes on
\* with the handle the cell holds then.
Publish(t) ==
  /\ cache # NoCache
  /\ cache.threads[t].pc = "publish"
  /\ cache' = [cache EXCEPT
                 !.cells[cache.threads[t].prog[cache.threads[t].at].cell] =
                   Published(@, cache.threads[t].found),
                 !.threads[t] =
                   Advanced([@ EXCEPT !.seen =
                               Append(@, [cell |-> cache.threads[t].prog[cache.threads[t].at].cell,
                                          target |-> cache.threads[t].prog[cache.threads[t].at].target,
                                          value |-> Published(cache.cells[cache.threads[t].prog[cache.threads[t].at].cell],
                                                              cache.threads[t].found)])])]
  /\ UNCHANGED <<jniVars, runVars, cbnVars, natVars, genVars, values, hdr_pc, reg>>

NextCache ==
  \/ HeaderContent
  \/ LoadLibrary
  \/ \E t \in Threads : \E i \in 1..Len(called_by_natives) : EnterStub(t, i)
  \/ \E t \in Threads : AcquireLoad(t)
  \/ \E t \in Threads : \E ok \in BOOLEAN : Find(t, ok)
  \/ \E t \in Threads : Publish(t)

SpecCache == InitCache /\ [][NextCache]_vars

\* What a thread has gone on with after an access is the handle the cell
\* holds, and it is a handle of what the access looks up.
C22_Observed ==
  \A t \in DOMAIN cache.threads : \A k \in 1..Len(cache.threads[t].seen) :
    /\ cache.threads[t].seen[k].value # Unset
    /\ cache.threads[t].seen[k].value = cache.cells[cache.threads[t].seen[k].cell]
    /\ cache.threads[t].seen[k].value.of = cache.threads[t].seen[k].target

\* Every cell a stub accesses is an AtomicWord the emitted code defines, and
\* the emitted code names no lock.
C22_NoLock ==
  cache # NoCache =>
    /\ \A i \in DOMAIN cache.programs : \A k \in 1..Len(cache.programs[i]) :
         cache.programs[i][k].cell \in DOMAIN cache.cells
    /\ \A word \in {"Lock", "lock", "mutex", "Mutex"} : ~Contains(content, word)

\* A cell that holds a handle keeps it.
C22_Kept ==
  \A c \in DOMAIN cache.cells :
    cache.cells[c] # Unset => c \in DOMAIN cache'.cells /\ cache'.cells[c] = cache.cells[c]

\* C22: every class-handle cell and member-identifier cell of the emitted code
\* is an atomic-publish cache: when several threads are in the same stub, the
\* handle the first one publishes is kept, every thread reads the unset value
\* or that published handle and goes on with the published handle only, and
\* the emitted code takes no lock.
C22_AtomicPublish == [](C22_Observed /\ C22_NoLock) /\ [][C22_Kept]_vars

\* Two threads have gone through the same stub, both have made a handle for
\* its member, and the one that published second goes on with the other's.
C22_Witness ==
  /\ cache # NoCache
  /\ \E t \in Threads : \E u \in Threads \ {t} :
       /\ cache.threads[t].pc = "done"
       /\ cache.threads[u].pc = "done"
       /\ cache.threads[t].prog = cache.threads[u].prog
       /\ cache.threads[t].found.by = t
       /\ cache.threads[u].found.by = u
       /\ cache.threads[t].found.of = cache.threads[u].found.of
       /\ cache.threads[t].seen[Len(cache.threads[t].seen)].value = cache.threads[u].found
====
